---- MODULE Spec2Model ----
(***************************************************************************)
(* The adaptive quality search of image_api.compress_image, with the       *)
(* ProcessingController it polls.                                          *)
(*                                                                         *)
(* Sizes.  The codec is a black box: every encode at parameters not seen   *)
(* before may come out at any size of a bounded geometric grid             *)
(*     GridSize(e) = 11^(MaxGridExp-e) * 12^e   (KB, e = 0..MaxGridExp),   *)
(* whose neighbours differ by the factor 12/11.  Encoded sizes sit on      *)
(* every third point; targets are the smallest size, the largest size and  *)
(* the two points below it.  On the grid every logarithm is exact:         *)
(* ln GridSize(e) = c + e * ln(12/11).  All comparisons (<= target, the    *)
(* 10% margin, the tuning threshold) are made on the sizes themselves.     *)
(* size_at remembers the size of every encode made, so the size function   *)
(* is deterministic but otherwise arbitrary (monotonic or not).            *)
(***************************************************************************)
EXTENDS Integers, Sequences, FiniteSets, TLC

VARIABLES
    output_format,        \* config.output_format.upper()
    webp_method_default,  \* config.webp_method / scale_settings["webp_method"]
    target_size_kb,       \* target_size_kb
    initial_quality,      \* initial_quality
    controller,           \* TRUE: a ProcessingController was passed, FALSE: None
    image_sizes,          \* the image: the sizes its encodes can come out at
    scale_settings,       \* scale_settings, NoSettings for None
    img_width,            \* img.width of the image opened
    img_height,           \* img.height of the image opened
    pillow_has_method,    \* the WEBP encoder of this Pillow takes the argument "method"
    apply_scale,          \* apply_scale, FALSE while not set
    pause_set,            \* controller._pause
    stop_set,             \* controller._stop
    skip_set,             \* controller._skip
    size_at,              \* the codec: encode parameters -> size, as far as sampled
    saves,                \* the img.save calls made, in order (their parameters)
    retrying,             \* get_size_for_quality is in its handler, "method" popped
    pc,                   \* position of the worker in compress_image
    er,                   \* position of the worker inside ensure_running
    ops,                  \* controller methods the worker called since its last encode
    pending,              \* stop or skip was set when the current ensure_running began
    tried,
    history,
    step,                 \* in units of 1/StepScale
    try_count,
    lower_bound,
    higher_bound,
    next_quality,
    best_under,
    best_quality,
    best_size,
    best_bytes,
    best_method,
    method,               \* loop variable of the method tuning
    result,               \* the tuple compress_image returned
    image_files,          \* process_images: the files found, in order
    idx,                  \* position in image_files of the file of this iteration (from 1)
    rel_path,             \* the file rel_path names, 0 while the local is unbound
    output_files,         \* the output files written, in order (the files they are of)
    output_bytes,         \* what was written to the output files, in order
    ws,                   \* the rows appended to the worksheet (the files they are of)
    ws_cells,             \* the cells of these rows after the name
    log,                  \* the lines of the log that name an outcome
    excel,                \* the workbook file: whether saved, and its rows
    batch_return,         \* the dict process_images returned
    written_after_stop,   \* number of output files written while _stop was set
    skip_requests,        \* the controller alone: calls of request_skip made
    skip_results,         \* the controller alone: calls of consume_skip that returned True
    ui_running,           \* ui: the running of the last set_running_state (Run is disabled)
    ui_paused,            \* ui: the paused of the last set_running_state
    ui_controllers,       \* ui: the flags of every ProcessingController created, in order
    ui_controller,        \* ui: the controller the handlers see (0 for None)
    ui_workers,           \* ui: the worker threads started, in order
    found_files,          \* output naming: the files rglob found, in order
    output_naming_mode,   \* output naming: config.output_naming_mode
    found_idx,            \* output naming: position of the file of this iteration (from 1)
    written_paths         \* output naming: the output files written, in order

inputs == <<output_format, webp_method_default, target_size_kb, initial_quality, controller,
           image_sizes, scale_settings, img_width, img_height, pillow_has_method>>
flags  == <<pause_set, stop_set, skip_set>>
codec  == <<size_at, saves, retrying>>
search == <<tried, history, step, try_count, lower_bound, higher_bound, next_quality>>
tuning == <<best_under, best_quality, best_size, best_bytes, best_method, method>>
batch  == <<image_files, idx, rel_path, output_files, output_bytes, ws, ws_cells, log, excel, batch_return,
            written_after_stop>>
skips  == <<skip_requests, skip_results>>
ui     == <<ui_running, ui_paused, ui_controllers, ui_controller, ui_workers>>
naming == <<found_files, output_naming_mode, found_idx, written_paths>>
aside  == <<skips, ui, naming>>
vars   == <<inputs, flags, codec, pc, er, ops, pending, search, tuning, result, batch,
            apply_scale, aside>>

----------------------------------------------------------------------------
(* Bounds of the model *)

MaxGridExp == 6
MaxWebpMethod == 2
MaxFiles == 2
KneeQuality == 25
CondThreshold == 3000

(* Program constants *)

min_quality == 1
(* A faulty upper end of the quality range. *)
max_quality_low == 100 - 5
max_quality == 100
method_tuning_threshold == 95
InitialStep == 50
(* A faulty budget: two iterations more than the source allows. *)
MaxTryCountLoose == 10 + 2
MaxTryCount == 10

StepScale == 2 ^ 6

GridSize(e) == (11 ^ (MaxGridExp - e)) * (12 ^ e)
GridExp(s) == CHOOSE e \in 0..MaxGridExp : GridSize(e) = s

Sizes == { GridSize(e) : e \in { x \in 0..MaxGridExp : x % 3 = 0 } }
Targets == { GridSize(e) : e \in {0, MaxGridExp - 2, MaxGridExp - 1, MaxGridExp} }
InitialQualities == {0, 37, 150}
Formats == {"JPEG", "WEBP", "HEIF", "PNG"}

Max(a, b) == IF a >= b THEN a ELSE b
Min(a, b) == IF a <= b THEN a ELSE b
Abs(a) == IF a >= 0 THEN a ELSE 0 - a

----------------------------------------------------------------------------
(* Values *)

(* scale_settings is None (or empty): nothing is asked for. *)
NoSettings == [mode |-> "", condition |-> "", cond_width |-> 0, cond_height |-> 0,
               cond_logic |-> ""]

(* The settings the scaling frame of the UI can hand over. *)
ScaleModes == {"Off", "By Percentage", "By Target Dimensions"}
ScaleLogics == {"OR (Any condition met)", "AND (All conditions met)"}
ScaleSettings ==
    [mode : ScaleModes, condition : {"On", "Off"}, cond_width : {0, CondThreshold},
     cond_height : {0, CondThreshold}, cond_logic : ScaleLogics]

(* Widths and heights below, at and above the threshold *)
Dimensions == {CondThreshold - 1000, CondThreshold, CondThreshold + 1000}

NoTrial == [q |-> 0, s |-> 0, b |-> <<0, 0>>]

(* The place of the method in keyword arguments that hold none *)
NoMethod == 0 - 1

(* A faulty handler, which keeps the method in the keyword arguments. *)
KwargsKept(args) == args

(* The keyword arguments img.save is called with for the parameters args:
   after save_kwargs.pop("method", None) there is no method. *)
Kwargs(args) == IF retrying THEN <<args[1], NoMethod>> ELSE args

Trial(q, s, m) == [q |-> q, s |-> s, b |-> Kwargs(<<q, m>>)]
NoResult == [bytes |-> <<0, 0>>, quality |-> 0, size |-> 0, method |-> 0]
Returned(t, m) == [bytes |-> t.b, quality |-> t.q, size |-> t.s, method |-> m]

PngArgs == <<100, -1>>

(* A faulty format test, which takes no format for lossless. *)
is_lossless_never == output_format \in {}

is_lossless == output_format \in {"PNG"}

----------------------------------------------------------------------------
(* Pure functions of compress_image *)

(* A faulty clamp, which lets every quality through. *)
ClampNone(q) == q

(* max(min_quality, min(max_quality, q)) *)
Clamp(q) == Max(min_quality, Min(max_quality, q))

(* A faulty prediction, which bisects the bracket. *)
interpolate_bisect(q_low, s_low, q_high, s_high, s_target) ==
    [num |-> q_low + q_high, den |-> 2]

(* interpolate_quality: the quality at which the log-linear model through
   (q_low, s_low) and (q_high, s_high) reaches s_target, as the exact
   rational num/den with den > 0.  With L = ln(12/11) and e = GridExp(s),
   B = (e_high - e_low) * L / (q_high - q_low), and
   q_target = q_low + (e_target - e_low) * (q_high - q_low) / (e_high - e_low). *)
interpolate_quality(q_low, s_low, q_high, s_high, s_target) ==
    IF s_high = s_low
    THEN [num |-> q_low, den |-> 1]
    ELSE LET de == GridExp(s_high) - GridExp(s_low)
             n  == q_low * de + (GridExp(s_target) - GridExp(s_low)) * (q_high - q_low)
         IN  IF de > 0 THEN [num |-> n, den |-> de]
                       ELSE [num |-> 0 - n, den |-> 0 - de]

(* A faulty order, in which the division comes before the guard of equal
   sizes. *)
InterpolationRaisesUnguarded(q_low, s_low, q_high, s_high, s_target) ==
    q_high = q_low

(* interpolate_quality raises: past the guard s_high == s_low, the division
   by q_high - q_low is a ZeroDivisionError on equal qualities.  The sizes
   are sizes of encoded files and the target is not below one of them, so
   math.log is defined on all three. *)
InterpolationRaises(q_low, s_low, q_high, s_high, s_target) ==
    s_high # s_low /\ q_high = q_low

(* int(round(x)) for x = num/den.  Away from a tie the result is the nearest
   integer.  At an exact tie the float x is the tie perturbed by the rounding
   errors of math.log and the divisions, so round() yields either neighbour. *)
RoundOutcomes(x) ==
    LET f == x.num \div x.den
        r == x.num % x.den
    IN  IF 2 * r < x.den THEN {f}
        ELSE IF 2 * r > x.den THEN {f + 1}
        ELSE {f, f + 1}

(* The loops over history are folds: Scan(h, i, acc) goes on from trial i with
   the value acc the loop variable has reached.  The accumulator is bound by
   a quantifier at every step, so that it is a value and not an expression
   to be evaluated again. *)

(* A faulty bracket scan, which looks at the last two trials only. *)
RECURSIVE ScanLowerLastTwo(_, _, _)
ScanLowerLastTwo(h, i, acc) ==
    IF i > Len(h) THEN acc
    ELSE CHOOSE r \in { ScanLowerLastTwo(h, i + 1, a) :
                        a \in { IF i >= Len(h) - 1 /\ h[i].s <= target_size_kb
                                   /\ (acc = NoTrial \/ h[i].q > acc.q)
                                THEN h[i] ELSE acc } } : TRUE

(* The bracket scan, lines 256-262: the under-target trial of largest quality
   and the over-target trial of smallest quality, the first one kept on
   equality. *)
RECURSIVE ScanLower(_, _, _)
ScanLower(h, i, acc) ==
    IF i > Len(h) THEN acc
    ELSE CHOOSE r \in { ScanLower(h, i + 1, a) :
                        a \in { IF h[i].s <= target_size_kb
                                   /\ (acc = NoTrial \/ h[i].q > acc.q)
                                THEN h[i] ELSE acc } } : TRUE

RECURSIVE ScanHigher(_, _, _)
ScanHigher(h, i, acc) ==
    IF i > Len(h) THEN acc
    ELSE CHOOSE r \in { ScanHigher(h, i + 1, a) :
                        a \in { IF ~(h[i].s <= target_size_kb) /\ h[i].s > target_size_kb
                                   /\ (acc = NoTrial \/ h[i].q < acc.q)
                                THEN h[i] ELSE acc } } : TRUE

(* A faulty final selection, which forgets the test s <= target_size_kb. *)
RECURSIVE ScanLargest(_, _, _)
ScanLargest(h, i, acc) ==
    IF i > Len(h) THEN acc
    ELSE CHOOSE r \in { ScanLargest(h, i + 1, a) :
                        a \in { IF acc = NoTrial \/ h[i].s > acc.s
                                THEN h[i] ELSE acc } } : TRUE

(* Final selection, lines 306-310: the under-target trial of largest size
   (first one kept). *)
RECURSIVE ScanBestUnder(_, _, _)
ScanBestUnder(h, i, acc) ==
    IF i > Len(h) THEN acc
    ELSE CHOOSE r \in { ScanBestUnder(h, i + 1, a) :
                        a \in { IF h[i].s <= target_size_kb
                                   /\ (acc = NoTrial \/ h[i].s > acc.s)
                                THEN h[i] ELSE acc } } : TRUE

(* min(history, key=lambda x: x[1]): the first trial of smallest size. *)
RECURSIVE ScanSmallest(_, _, _)
ScanSmallest(h, i, acc) ==
    IF i > Len(h) THEN acc
    ELSE CHOOSE r \in { ScanSmallest(h, i + 1, a) :
                        a \in { IF acc = NoTrial \/ h[i].s < acc.s
                                THEN h[i] ELSE acc } } : TRUE

(* A faulty margin, of 20% of the target. *)
WithinMarginWide(s) == Abs(s - target_size_kb) * 5 < target_size_kb

(* abs(current_size_kb - target_size_kb) < target_size_kb * 0.10 *)
WithinMargin(s) == Abs(s - target_size_kb) * 10 < target_size_kb

RECURSIVE GCD(_, _)
GCD(a, b) == IF b = 0 THEN a ELSE GCD(b, a % b)

(* A faulty gate, which finds slack in every trial not above the target. *)
BelowTargetOnly(s) == s <= target_size_kb

(* best_size < target_size_kb * tuning_threshold, where tuning_threshold is
   method_tuning_threshold / 100.0: the fraction is reduced before the cross
   multiplication. *)
BelowTuningThreshold(s) ==
    LET g == GCD(100, method_tuning_threshold)
    IN  s * (100 \div g) < target_size_kb * (method_tuning_threshold \div g)

(* A faulty test, which takes a bracket for closed when its qualities meet. *)
BracketMet(lb, hb) ==
    lb # NoTrial /\ hb # NoTrial /\ hb.q - lb.q <= 0

(* lower_bound and higher_bound and (higher_bound[0] - lower_bound[0] <= 1) *)
BracketClosed(lb, hb) ==
    lb # NoTrial /\ hb # NoTrial /\ hb.q - lb.q <= 1

(* A faulty proposal, which steps up from the over-target bound instead of
   down. *)
CandidatesStepUp(lb, hb) ==
    IF lb # NoTrial /\ hb # NoTrial
    THEN { Clamp(r) : r \in RoundOutcomes(
               interpolate_quality(lb.q, lb.s, hb.q, hb.s, target_size_kb)) }
    ELSE IF lb # NoTrial
    THEN { Min(max_quality, lb.q + (step \div StepScale)) }
    ELSE IF hb # NoTrial
    THEN { Min(max_quality, hb.q + (step \div StepScale)) }
    ELSE { (min_quality + max_quality) \div 2 }

(* The next quality the converge iteration proposes, lines 267-277. *)
Candidates(lb, hb) ==
    IF lb # NoTrial /\ hb # NoTrial
    THEN { Clamp(r) : r \in RoundOutcomes(
               interpolate_quality(lb.q, lb.s, hb.q, hb.s, target_size_kb)) }
    ELSE IF lb # NoTrial
    THEN { Min(max_quality, lb.q + (step \div StepScale)) }
    ELSE IF hb # NoTrial
    THEN { Max(min_quality, hb.q - (step \div StepScale)) }
    ELSE { (min_quality + max_quality) \div 2 }

(* A faulty decision, whose AND is content with no active condition. *)
ApplyScaleNoActive(ss, width, height) ==
    IF ss # NoSettings /\ ss.mode # "Off"
    THEN IF ss.condition # "On"
         THEN TRUE
         ELSE LET cond_w == ss.cond_width
                  cond_h == ss.cond_height
                  w_cond_active == cond_w > 0
                  h_cond_active == cond_h > 0
                  w_cond_met == width > cond_w
                  h_cond_met == height > cond_h
                  passes_w == ~w_cond_active \/ w_cond_met
                  passes_h == ~h_cond_active \/ h_cond_met
              IN  IF ss.cond_logic = "OR (Any condition met)"
                  THEN (w_cond_active /\ w_cond_met) \/ (h_cond_active /\ h_cond_met)
                  ELSE IF ss.cond_logic = "AND (All conditions met)"
                  THEN passes_w /\ passes_h
                  ELSE FALSE
    ELSE FALSE

(* Lines 134-155: whether the image is to be scaled. *)
ApplyScale(ss, width, height) ==
    IF ss # NoSettings /\ ss.mode # "Off"
    THEN IF ss.condition # "On"
         THEN TRUE
         ELSE LET cond_w == ss.cond_width
                  cond_h == ss.cond_height
                  w_cond_active == cond_w > 0
                  h_cond_active == cond_h > 0
                  w_cond_met == width > cond_w
                  h_cond_met == height > cond_h
                  passes_w == ~w_cond_active \/ w_cond_met
                  passes_h == ~h_cond_active \/ h_cond_met
              IN  IF ss.cond_logic = "OR (Any condition met)"
                  THEN (w_cond_active /\ w_cond_met) \/ (h_cond_active /\ h_cond_met)
                  ELSE IF ss.cond_logic = "AND (All conditions met)"
                  THEN passes_w /\ passes_h /\ (w_cond_active \/ h_cond_active)
                  ELSE FALSE
    ELSE FALSE

----------------------------------------------------------------------------
(* The codec *)

(* The sizes an encode at parameters args can come out at: the size already
   measured at these parameters, any size of the image otherwise. *)
ProbeSizes(args) ==
    IF Kwargs(args) \in DOMAIN size_at THEN {size_at[Kwargs(args)]} ELSE image_sizes

(* get_size_for_quality(quality, method) / img.save: one encode of size s. *)
Encode(args, s) ==
    /\ (output_format = "WEBP" /\ ~pillow_has_method) => retrying
    /\ s \in ProbeSizes(args)
    /\ size_at' = (Kwargs(args) :> s) @@ size_at
    /\ saves' = Append(saves, Kwargs(args))
    /\ retrying' = FALSE
    /\ ops' = <<>>

----------------------------------------------------------------------------
(* Initial states *)

q_initial == Clamp(initial_quality)

NotSaved == [saved |-> FALSE, rows |-> <<>>]
NoReturn == [processed |-> -1, skipped |-> -1]

(* compress_image called on its own: there is no batch. *)
(* The parts modelled on their own are not in use. *)
NoSkips ==
    /\ skip_requests = 0
    /\ skip_results = 0

(* launch_gui before the first Run: controller is None (line 70), Run is
   enabled and the other four buttons are disabled (lines 335-347). *)
NoRuns ==
    /\ ui_running = FALSE
    /\ ui_paused = FALSE
    /\ ui_controllers = <<>>
    /\ ui_controller = 0
    /\ ui_workers = <<>>

NoFound ==
    /\ found_files = <<>>
    /\ output_naming_mode = "folder"
    /\ found_idx = 0
    /\ written_paths = <<>>

NoAside == NoSkips /\ NoRuns /\ NoFound

NoBatch ==
    /\ image_files = <<>>
    /\ idx = 0
    /\ rel_path = 0
    /\ output_files = <<>>
    /\ output_bytes = <<>>
    /\ ws = <<>>
    /\ ws_cells = <<>>
    /\ log = <<>>
    /\ excel = NotSaved
    /\ batch_return = NoReturn
    /\ written_after_stop = 0

InitWorker ==
    /\ saves = <<>>
    /\ retrying = FALSE
    /\ pc = "open"
    /\ ops = <<>>
    /\ tried = {}
    /\ history = <<>>
    /\ step = 0
    /\ try_count = 0
    /\ lower_bound = NoTrial
    /\ higher_bound = NoTrial
    /\ next_quality = 0
    /\ best_under = NoTrial
    /\ best_quality = 0
    /\ best_size = 0
    /\ best_bytes = <<0, 0>>
    /\ best_method = 0
    /\ method = 0
    /\ result = NoResult

(* No scale_settings are passed. *)
NoScaling ==
    /\ scale_settings = NoSettings
    /\ img_width = CondThreshold + 1000
    /\ img_height = CondThreshold - 1000
    /\ apply_scale = FALSE

(* No controller: there are no flags to set. *)
NoController ==
    /\ controller = FALSE
    /\ pause_set = FALSE
    /\ stop_set = FALSE
    /\ skip_set = FALSE
    /\ pending = FALSE
    /\ er = "returned"

(* compress_image called without a controller, on an image whose encodes can
   come out at any size of Sizes. *)
Init ==
    /\ pillow_has_method = TRUE
    /\ output_format \in Formats
    /\ webp_method_default = MaxWebpMethod
    /\ target_size_kb \in Targets
    /\ initial_quality \in InitialQualities
    /\ image_sizes = Sizes
    /\ size_at = <<>>
    /\ NoController
    /\ InitWorker
    /\ NoBatch
    /\ NoAside
    /\ NoScaling

(* The same, the size at quality 1 being fixed before the search starts. *)
InitQ1 ==
    /\ pillow_has_method = TRUE
    /\ output_format = "WEBP"
    /\ webp_method_default = MaxWebpMethod
    /\ target_size_kb = GridSize(MaxGridExp - 2)
    /\ initial_quality \in InitialQualities
    /\ image_sizes = Sizes
    /\ \E s \in Sizes : size_at = (<<min_quality, webp_method_default>> :> s)
    /\ NoController
    /\ InitWorker
    /\ NoBatch
    /\ NoAside
    /\ NoScaling

(* compress_image called with a controller whose flags the driver may have set
   already, on an image whose encodes come out at the smallest or the largest
   size. *)
InitCtl ==
    /\ pillow_has_method = TRUE
    /\ output_format = "WEBP"
    /\ webp_method_default = MaxWebpMethod
    /\ target_size_kb = GridSize(MaxGridExp - 2)
    /\ initial_quality \in InitialQualities
    /\ image_sizes = {GridSize(0), GridSize(MaxGridExp)}
    /\ size_at = <<>>
    /\ controller = TRUE
    /\ pause_set \in BOOLEAN
    /\ stop_set \in BOOLEAN
    /\ skip_set \in BOOLEAN
    /\ pending = (stop_set \/ skip_set)
    /\ er = "wait_if_paused"
    /\ InitWorker
    /\ NoBatch
    /\ NoAside
    /\ NoScaling

(* compress_image called with the settings of the UI on an image of any of
   the dimensions, for a PNG or a WEBP output. *)
InitScale ==
    /\ pillow_has_method = TRUE
    /\ output_format \in {"PNG", "WEBP"}
    /\ webp_method_default = MaxWebpMethod
    /\ target_size_kb = GridSize(MaxGridExp - 2)
    /\ initial_quality = 37
    /\ image_sizes = {GridSize(0), GridSize(MaxGridExp)}
    /\ size_at = <<>>
    /\ NoController
    /\ InitWorker
    /\ NoBatch
    /\ NoAside
    /\ scale_settings \in ScaleSettings \cup {NoSettings}
    /\ img_width \in Dimensions
    /\ img_height \in Dimensions
    /\ apply_scale = FALSE

----------------------------------------------------------------------------
(* ensure_running, as called by compress_image: with a controller the worker
   goes through wait_if_paused, should_stop and consume_skip; without one the
   call returns at once. *)
(* A faulty ensure_running, which has lost its test "if controller:" and
   waits on a controller that is not there. *)
ensure_running_unguarded ==
    /\ er' = "wait_if_paused"
    /\ pending' = (stop_set \/ skip_set)

(* A faulty ensure_running, which returns without a look at the controller. *)
ensure_running_unchecked ==
    /\ er' = "returned"
    /\ pending' = (controller /\ (stop_set \/ skip_set))

ensure_running ==
    /\ er' = IF controller THEN "wait_if_paused" ELSE "returned"
    /\ pending' = (controller /\ (stop_set \/ skip_set))

NoCall ==
    /\ er' = "none"
    /\ pending' = FALSE

Return(r) ==
    /\ result' = r
    /\ pc' = "done"
    /\ NoCall

(* step = 50.0; try_count = len(tried); lower_bound, higher_bound = None, None *)
StartConverge ==
    /\ step' = InitialStep * StepScale
    /\ try_count' = Cardinality(tried')
    /\ lower_bound' = NoTrial
    /\ higher_bound' = NoTrial
    /\ pc' = "loop"
    /\ NoCall
    /\ UNCHANGED result

----------------------------------------------------------------------------
(* compress_image *)

(* Lines 131-210: after the first ensure_running, scaling and prepare_image;
   a lossless format is saved once and returned, a lossy one goes on to the
   bootstrap probe. *)
Open ==
    /\ pc = "open" /\ er = "returned"
    /\ IF is_lossless
       THEN /\ \E s \in ProbeSizes(PngArgs) :
                 /\ Encode(PngArgs, s)
                 /\ Return([bytes |-> PngArgs, quality |-> 100, size |-> s, method |-> -1])
       ELSE /\ pc' = "bootstrap"
            /\ ensure_running
            /\ UNCHANGED <<codec, ops, result>>
    /\ apply_scale' = ApplyScale(scale_settings, img_width, img_height)
    /\ UNCHANGED <<batch, inputs, aside, flags, search, tuning>>

(* Lines 214-246 up to the next suspension point: the bootstrap probe and the
   choice of the bracket probe. *)
Bootstrap ==
    /\ pc = "bootstrap" /\ er = "returned"
    /\ \E s \in ProbeSizes(<<q_initial, webp_method_default>>) :
         /\ Encode(<<q_initial, webp_method_default>>, s)
         /\ history' = Append(history, Trial(q_initial, s, webp_method_default))
         /\ tried' = tried \cup {q_initial}
         /\ IF s > target_size_kb
            THEN IF min_quality \notin tried'
                 THEN /\ pc' = "bracket_low"
                      /\ ensure_running
                      /\ UNCHANGED <<step, try_count, lower_bound, higher_bound, result>>
                 ELSE StartConverge
            ELSE IF max_quality \notin tried'
                 THEN /\ pc' = "bracket_high"
                      /\ ensure_running
                      /\ UNCHANGED <<step, try_count, lower_bound, higher_bound, result>>
                 ELSE StartConverge
    /\ UNCHANGED <<batch, apply_scale, inputs, aside, flags, next_quality, tuning>>

(* A faulty probe at quality 1, which goes on to the converge loop whatever
   the size is. *)
BracketLowGoesOn ==
    /\ pc = "bracket_low" /\ er = "returned"
    /\ \E s \in ProbeSizes(<<min_quality, webp_method_default>>) :
         /\ Encode(<<min_quality, webp_method_default>>, s)
         /\ history' = Append(history, Trial(min_quality, s, webp_method_default))
         /\ tried' = tried \cup {min_quality}
         /\ StartConverge
    /\ UNCHANGED <<batch, apply_scale, inputs, aside, flags, next_quality, tuning>>

(* Lines 225-233: the probe at quality 1. *)
BracketLow ==
    /\ pc = "bracket_low" /\ er = "returned"
    /\ \E s \in ProbeSizes(<<min_quality, webp_method_default>>) :
         /\ Encode(<<min_quality, webp_method_default>>, s)
         /\ history' = Append(history, Trial(min_quality, s, webp_method_default))
         /\ tried' = tried \cup {min_quality}
         /\ IF s > target_size_kb
            THEN /\ Return(Returned(Trial(min_quality, s, webp_method_default),
                                    webp_method_default))
                 /\ UNCHANGED <<step, try_count, lower_bound, higher_bound>>
            ELSE StartConverge
    /\ UNCHANGED <<batch, apply_scale, inputs, aside, flags, next_quality, tuning>>

(* A faulty probe at quality 100, which goes on to the converge loop and the
   final selection whatever the size is. *)
BracketHighGoesOn ==
    /\ pc = "bracket_high" /\ er = "returned"
    /\ \E s \in ProbeSizes(<<max_quality, webp_method_default>>) :
         /\ Encode(<<max_quality, webp_method_default>>, s)
         /\ history' = Append(history, Trial(max_quality, s, webp_method_default))
         /\ tried' = tried \cup {max_quality}
         /\ StartConverge
    /\ UNCHANGED <<batch, apply_scale, inputs, aside, flags, next_quality, tuning>>

(* Lines 238-246: the probe at quality 100. *)
BracketHigh ==
    /\ pc = "bracket_high" /\ er = "returned"
    /\ \E s \in ProbeSizes(<<max_quality, webp_method_default>>) :
         /\ Encode(<<max_quality, webp_method_default>>, s)
         /\ history' = Append(history, Trial(max_quality, s, webp_method_default))
         /\ tried' = tried \cup {max_quality}
         /\ IF s <= target_size_kb
            THEN /\ Return(Returned(Trial(max_quality, s, webp_method_default),
                                    webp_method_default))
                 /\ UNCHANGED <<step, try_count, lower_bound, higher_bound>>
            ELSE StartConverge
    /\ UNCHANGED <<batch, apply_scale, inputs, aside, flags, next_quality, tuning>>

(* Lines 305-326: the final selection and the gate of the method tuning. *)
FinalSelection ==
    \E bu \in {ScanBestUnder(history, 1, NoTrial)} :
        IF bu = NoTrial
        THEN /\ Return(Returned(ScanSmallest(history, 1, NoTrial), webp_method_default))
             /\ UNCHANGED tuning
        ELSE /\ best_under' = bu
             /\ best_quality' = bu.q
             /\ best_size' = bu.s
             /\ best_bytes' = bu.b
             /\ best_method' = webp_method_default
             /\ IF /\ output_format = "WEBP"
                   /\ BelowTuningThreshold(bu.s)
                   /\ webp_method_default - 1 >= 0
                THEN /\ method' = webp_method_default - 1
                     /\ pc' = "tune"
                     /\ ensure_running
                     /\ UNCHANGED result
                ELSE /\ Return([bytes |-> bu.b, quality |-> bu.q, size |-> bu.s,
                                method |-> webp_method_default])
                     /\ UNCHANGED method

(* A faulty membership test, which finds no quality tried. *)
AlreadyTriedNever(q) == FALSE

(* next_quality in tried *)
AlreadyTried(q) == q \in tried

(* A faulty continue, which leaves the step as it is. *)
HalveKeepsStep ==
    /\ step' = step
    /\ pc' = "loop"
    /\ NoCall
    /\ UNCHANGED <<tuning, result>>

(* step /= 2; continue *)
Halve ==
    /\ step' = step \div 2
    /\ pc' = "loop"
    /\ NoCall
    /\ UNCHANGED <<tuning, result>>

(* ensure_running() before the converge probe of next_quality *)
GoProbe ==
    /\ pc' = "converge"
    /\ ensure_running
    /\ UNCHANGED <<step, tuning, result>>

(* Lines 252-287 and 305-326: the loop test and one iteration of the converge
   loop up to its continue or the ensure_running before its probe; when the
   loop is left (test false, or break), the final selection. *)
LoopIter ==
    /\ pc = "loop"
    /\ IF step >= StepScale /\ try_count <= MaxTryCount
       THEN \E lb \in {ScanLower(history, 1, NoTrial)},
               hb \in {ScanHigher(history, 1, NoTrial)} :
            LET both == lb # NoTrial /\ hb # NoTrial
                mid == (lb.q + hb.q) \div 2
            IN  /\ try_count' = try_count + 1
                /\ lower_bound' = lb
                /\ higher_bound' = hb
                /\ IF BracketClosed(lb, hb)
                   THEN /\ FinalSelection
                        /\ UNCHANGED <<step, next_quality>>
                   ELSE IF both /\ InterpolationRaises(lb.q, lb.s, hb.q, hb.s, target_size_kb)
                   THEN /\ pc' = "failed"
                        /\ NoCall
                        /\ UNCHANGED <<step, next_quality, tuning, result>>
                   ELSE \E nq \in Candidates(lb, hb) :
                          IF AlreadyTried(nq)
                          THEN IF both
                               THEN /\ next_quality' = mid
                                    /\ IF AlreadyTried(mid) THEN Halve ELSE GoProbe
                               ELSE /\ next_quality' = nq
                                    /\ Halve
                          ELSE /\ next_quality' = nq
                               /\ GoProbe
       ELSE /\ FinalSelection
            /\ UNCHANGED <<step, try_count, lower_bound, higher_bound, next_quality>>
    /\ UNCHANGED <<batch, apply_scale, inputs, aside, flags, codec, ops, tried, history>>

(* Lines 290-303: the converge probe and the step control. *)
ConvergeProbe ==
    /\ pc = "converge" /\ er = "returned"
    /\ \E s \in ProbeSizes(<<next_quality, webp_method_default>>) :
         /\ Encode(<<next_quality, webp_method_default>>, s)
         /\ history' = Append(history, Trial(next_quality, s, webp_method_default))
         /\ tried' = tried \cup {next_quality}
         /\ step' = IF WithinMargin(s) THEN StepScale ELSE Max(StepScale, step \div 2)
    /\ pc' = "loop"
    /\ NoCall
    /\ UNCHANGED <<batch, apply_scale, inputs, aside, flags, try_count, lower_bound, higher_bound, next_quality,
                   tuning, result>>

(* A faulty tuning probe, which adopts every size at or below the target. *)
TuneAdoptsAny ==
    /\ pc = "tune" /\ er = "returned"
    /\ \E s \in ProbeSizes(<<best_quality, method>>) :
         LET adopt == s <= target_size_kb
             ns == IF adopt THEN s ELSE best_size
             nb == IF adopt THEN Kwargs(<<best_quality, method>>) ELSE best_bytes
             nm == IF adopt THEN method ELSE best_method
         IN  /\ Encode(<<best_quality, method>>, s)
             /\ best_size' = ns
             /\ best_bytes' = nb
             /\ best_method' = nm
             /\ IF s > target_size_kb \/ method = 0
                THEN /\ Return([bytes |-> nb, quality |-> best_quality, size |-> ns,
                                method |-> nm])
                     /\ UNCHANGED method
                ELSE /\ method' = method - 1
                     /\ pc' = "tune"
                     /\ ensure_running
                     /\ UNCHANGED result
    /\ UNCHANGED <<batch, apply_scale, inputs, aside, flags, search, best_under, best_quality>>

(* Lines 328-343: one method-tuning probe, then the next method or the return. *)
Tune ==
    /\ pc = "tune" /\ er = "returned"
    /\ \E s \in ProbeSizes(<<best_quality, method>>) :
         LET adopt == s <= target_size_kb /\ s > best_size
             ns == IF adopt THEN s ELSE best_size
             nb == IF adopt THEN Kwargs(<<best_quality, method>>) ELSE best_bytes
             nm == IF adopt THEN method ELSE best_method
         IN  /\ Encode(<<best_quality, method>>, s)
             /\ best_size' = ns
             /\ best_bytes' = nb
             /\ best_method' = nm
             /\ IF s > target_size_kb \/ method = 0
                THEN /\ Return([bytes |-> nb, quality |-> best_quality, size |-> ns,
                                method |-> nm])
                     /\ UNCHANGED method
                ELSE /\ method' = method - 1
                     /\ pc' = "tune"
                     /\ ensure_running
                     /\ UNCHANGED result
    /\ UNCHANGED <<batch, apply_scale, inputs, aside, flags, search, best_under, best_quality>>

----------------------------------------------------------------------------
(* img.save raises *)

(* The worker stands before an encode of get_size_for_quality. *)
Probing ==
    /\ pc \in {"bootstrap", "bracket_low", "bracket_high", "converge", "tune"}
    /\ er = "returned"

(* The parameters of the encode the worker stands before *)
ProbeArgs ==
    IF pc = "open" THEN PngArgs
    ELSE IF pc = "bootstrap" THEN <<q_initial, webp_method_default>>
    ELSE IF pc = "bracket_low" THEN <<min_quality, webp_method_default>>
    ELSE IF pc = "bracket_high" THEN <<max_quality, webp_method_default>>
    ELSE IF pc = "converge" THEN <<next_quality, webp_method_default>>
    ELSE <<best_quality, method>>

(* Lines 193-198: the WEBP encoder does not take "method" and img.save raises
   an error that names it: the handler pops the method and stands before its
   own img.save. *)
SaveRejected ==
    /\ Probing /\ ~retrying
    /\ output_format = "WEBP" /\ ~pillow_has_method
    /\ saves' = Append(saves, ProbeArgs)
    /\ retrying' = TRUE
    /\ UNCHANGED <<batch, apply_scale, inputs, aside, flags, size_at, pc, er, ops, pending, search,
                   tuning, result>>

(* Lines 193-200, 177: img.save raises and the error leaves compress_image:
   as RuntimeError from the first save of get_size_for_quality, as it is
   from the save of the handler and from the save of a lossless format. *)
SaveFails ==
    /\ \/ Probing /\ (retrying \/ pillow_has_method \/ output_format # "WEBP")
       \/ pc = "open" /\ er = "returned" /\ is_lossless
    /\ saves' = Append(saves, Kwargs(ProbeArgs))
    /\ retrying' = FALSE
    /\ pc' = "failed"
    /\ NoCall
    /\ apply_scale' = IF pc = "open" THEN ApplyScale(scale_settings, img_width, img_height)
                      ELSE apply_scale
    /\ UNCHANGED <<batch, inputs, aside, flags, size_at, ops, search, tuning, result>>

----------------------------------------------------------------------------
(* ProcessingController, worker side: the three steps of ensure_running *)

(* A faulty wait_if_paused, which waits for the pause to clear and does not
   look at the stop. *)
WaitIfPausedNoStop ==
    /\ er = "wait_if_paused"
    /\ ~pause_set
    /\ er' = "should_stop"
    /\ ops' = Append(ops, "wait_if_paused")
    /\ UNCHANGED <<batch, apply_scale, inputs, aside, flags, codec, pc, pending, search, tuning, result>>

(* wait_if_paused returns once the pause is clear or a stop is set. *)
WaitIfPaused ==
    /\ er = "wait_if_paused"
    /\ ~(pause_set /\ ~stop_set)
    /\ er' = "should_stop"
    /\ ops' = Append(ops, "wait_if_paused")
    /\ UNCHANGED <<batch, apply_scale, inputs, aside, flags, codec, pc, pending, search, tuning, result>>

(* A faulty ensure_running, which looks at the skip before the stop. *)
ShouldStopAfterSkip ==
    /\ er = "should_stop"
    /\ ops' = Append(ops, "should_stop")
    /\ IF skip_set
       THEN /\ er' = "skip_clear"
            /\ UNCHANGED pc
       ELSE IF stop_set
       THEN /\ pc' = "stopped"
            /\ er' = "none"
       ELSE /\ er' = "consume_skip"
            /\ UNCHANGED pc
    /\ UNCHANGED <<batch, apply_scale, inputs, aside, flags, codec, pending, search, tuning, result>>

(* if controller.should_stop(): raise StopProcessing() *)
ShouldStop ==
    /\ er = "should_stop"
    /\ ops' = Append(ops, "should_stop")
    /\ IF stop_set
       THEN /\ pc' = "stopped"
            /\ er' = "none"
       ELSE /\ er' = "consume_skip"
            /\ UNCHANGED pc
    /\ UNCHANGED <<batch, apply_scale, inputs, aside, flags, codec, pending, search, tuning, result>>

(* consume_skip: the test of the flag ... *)
ConsumeSkip ==
    /\ er = "consume_skip"
    /\ ops' = Append(ops, "consume_skip")
    /\ er' = IF skip_set THEN "skip_clear" ELSE "returned"
    /\ UNCHANGED <<batch, apply_scale, inputs, aside, flags, codec, pc, pending, search, tuning, result>>

(* A faulty consume_skip, which raises SkipProcessing and leaves the flag set. *)
ConsumeSkipKeeps ==
    /\ er = "skip_clear"
    /\ pc' = "skipped"
    /\ er' = "none"
    /\ UNCHANGED <<batch, apply_scale, inputs, aside, flags, codec, ops, pending, search, tuning, result>>

(* ... and, the flag found set, its clear and raise SkipProcessing(). *)
ConsumeSkipClear ==
    /\ er = "skip_clear"
    /\ skip_set' = FALSE
    /\ pc' = "skipped"
    /\ er' = "none"
    /\ UNCHANGED <<batch, apply_scale, inputs, aside, pause_set, stop_set, codec, ops, pending, search, tuning, result>>

----------------------------------------------------------------------------
(* ProcessingController, driver side: the buttons of the UI while a run is on *)

Running == pc \notin {"done", "stopped", "skipped"}

Pause ==
    /\ controller /\ Running
    /\ pause_set' = TRUE
    /\ UNCHANGED <<batch, apply_scale, inputs, aside, stop_set, skip_set, codec, pc, er, ops, pending, search, tuning, result>>

(* A faulty resume, which clears the stop with the pause. *)
ResumeAll ==
    /\ controller /\ Running
    /\ pause_set' = FALSE
    /\ stop_set' = FALSE
    /\ UNCHANGED <<batch, apply_scale, inputs, aside, skip_set, codec, pc, er, ops, pending, search, tuning, result>>

Resume ==
    /\ controller /\ Running
    /\ pause_set' = FALSE
    /\ UNCHANGED <<batch, apply_scale, inputs, aside, stop_set, skip_set, codec, pc, er, ops, pending, search, tuning, result>>

Stop ==
    /\ controller /\ Running
    /\ stop_set' = TRUE
    /\ UNCHANGED <<batch, apply_scale, inputs, aside, pause_set, skip_set, codec, pc, er, ops, pending, search, tuning, result>>

RequestSkip ==
    /\ controller /\ Running
    /\ skip_set' = TRUE
    /\ UNCHANGED <<batch, apply_scale, inputs, aside, pause_set, stop_set, codec, pc, er, ops, pending, search, tuning, result>>

----------------------------------------------------------------------------
(* process_images: the batch loop around compress_image *)

(* The files a batch can hold: one at most as large as the target (copied
   through), one four times and one ten times the target, one four times the
   target that Image.open cannot decode, and one whose size cannot be read. *)
FileKinds(target) ==
    { [stat |-> TRUE,  decode |-> TRUE,  original_size_kb |-> target],
      [stat |-> TRUE,  decode |-> TRUE,  original_size_kb |-> 4 * target],
      [stat |-> TRUE,  decode |-> TRUE,  original_size_kb |-> 10 * target],
      [stat |-> TRUE,  decode |-> FALSE, original_size_kb |-> 4 * target],
      [stat |-> FALSE, decode |-> TRUE,  original_size_kb |-> 4 * target] }

(* The images of a batch encode to the smallest size up to the quality
   KneeQuality and to the largest size above it, at every method. *)
BatchImage ==
    [ args \in (min_quality..max_quality) \X (NoMethod..MaxWebpMethod) |->
        IF args[1] <= KneeQuality THEN GridSize(0) ELSE GridSize(MaxGridExp) ]

(* A file at the target that Image.open cannot decode *)
CopyKinds(target) ==
    { [stat |-> TRUE, decode |-> FALSE, original_size_kb |-> target] }

FileLists(kinds) ==
    UNION { [1..n -> kinds] : n \in 0..MaxFiles }

(* int(max(1, min(100, 100 * (target / original_size_kb) * 1.5))), the
   fraction reduced before the multiplication. *)
initial_quality_guess(target, original_size_kb) ==
    LET g == GCD(target, original_size_kb)
    IN  Max(1, Min(100, (150 * (target \div g)) \div (original_size_kb \div g)))

(* process_images called on a list of files, with a fresh controller or with
   none. *)
InitBatchOf(formats, controllers, pillows, kinds) ==
    /\ NoAside
    /\ output_format \in formats
    /\ pillow_has_method \in pillows
    /\ webp_method_default = MaxWebpMethod
    /\ target_size_kb = GridSize(MaxGridExp - 2)
    /\ initial_quality = 0
    /\ image_sizes = {GridSize(0), GridSize(MaxGridExp)}
    /\ controller \in controllers
    /\ pause_set = FALSE /\ stop_set = FALSE /\ skip_set = FALSE
    /\ size_at = <<>> /\ saves = <<>> /\ retrying = FALSE
    /\ pc = "batch_start" /\ er = "none" /\ ops = <<>> /\ pending = FALSE
    /\ tried = {} /\ history = <<>> /\ step = 0 /\ try_count = 0
    /\ lower_bound = NoTrial /\ higher_bound = NoTrial /\ next_quality = 0
    /\ best_under = NoTrial /\ best_quality = 0 /\ best_size = 0
    /\ best_bytes = <<0, 0>> /\ best_method = 0 /\ method = 0
    /\ result = NoResult
    /\ image_files \in FileLists(kinds)
    /\ idx = 0
    /\ rel_path = 0
    /\ output_files = <<>>
    /\ output_bytes = <<>>
    /\ ws = <<>>
    /\ ws_cells = <<>>
    /\ log = <<>>
    /\ excel = NotSaved
    /\ batch_return = NoReturn
    /\ written_after_stop = 0
    /\ NoScaling

InitBatch == InitBatchOf({"WEBP"}, BOOLEAN, {TRUE}, FileKinds(GridSize(MaxGridExp - 2)))

(* process_images without a controller, for any kind of output format, on a
   Pillow that takes "method" or on one that does not. *)
InitCodec ==
    InitBatchOf({"WEBP", "JPEG", "PNG"}, {FALSE}, BOOLEAN,
                FileKinds(GridSize(MaxGridExp - 2)) \cup CopyKinds(GridSize(MaxGridExp - 2)))

(* What is written to an output file: the bytes of the input file, or the
   bytes of an encode. *)
CopyOf(file) == [copy_of |-> file, encoded |-> <<0, 0>>]
Encoded(bytes) == [copy_of |-> 0, encoded |-> bytes]

(* A cell of the sheet: a number as text, or a marker. *)
Number(n) == [marker |-> "", number |-> n]
Marker(m) == [marker |-> m, number |-> 0]

(* f"{reduction:.1f}" of reduction = (1 - final_size_kb / original_size_kb)
   * 100, in tenths of a percent: 1000 less the thousandths final_size_kb is
   of original_size_kb, rounded to one or the other side at an exact half. *)
Reduction(final_size_kb, original_size_kb) ==
    LET g == GCD(final_size_kb, original_size_kb)
    IN  { 1000 - n : n \in RoundOutcomes([num |-> 1000 * (final_size_kb \div g),
                                          den |-> original_size_kb \div g]) }

(* A faulty row, which reports the quality of the first guess. *)
CopyCellsGuess(original_size_kb) ==
    [original |-> Number(original_size_kb), quality |-> Number(initial_quality),
     method |-> Marker("-"), size |-> Number(original_size_kb), reduction |-> Number(0)]

(* Lines 482-492: the cells of the row of a file copied through; sizes are
   whole KB, whose two decimals are zero. *)
CopyCells(original_size_kb) ==
    [original |-> Number(original_size_kb), quality |-> Marker("-"), method |-> Marker("-"),
     size |-> Number(original_size_kb), reduction |-> Number(0)]

(* Lines 515-525: the cells of the row of a compressed file. *)
CompressedCells(original_size_kb, reduction) ==
    [original |-> Number(original_size_kb), quality |-> Number(result.quality),
     method |-> IF result.method # -1 THEN Number(result.method) ELSE Marker("N/A"),
     size |-> Number(result.size), reduction |-> Number(reduction)]

LogLine(kind, name) == [kind |-> kind, name |-> name, file |-> idx]

(* The worker's variables outside a call of compress_image *)
worker == <<codec, er, ops, pending, search, tuning, result, apply_scale>>

(* progress_fn(idx + 1, num_images) and the next turn of the loop *)
NextFile ==
    /\ idx' = idx + 1
    /\ pc' = "batch_top"

(* Lines 376-400: no file, or the workbook and the first file. *)
BatchStart ==
    /\ pc = "batch_start"
    /\ IF image_files = <<>>
       THEN /\ batch_return' = [processed |-> 0, skipped |-> 0]
            /\ pc' = "batch_returned"
            /\ UNCHANGED idx
       ELSE /\ idx' = 1
            /\ pc' = "batch_top"
            /\ UNCHANGED batch_return
    /\ UNCHANGED <<inputs, aside, flags, worker, image_files, rel_path, output_files, output_bytes, ws, ws_cells, log,
                   excel, written_after_stop>>

(* A faulty loop head, which does not wait on a pause. *)
BatchWaitIfPausedPasses ==
    /\ pc = "batch_top"
    /\ pc' = IF idx > Len(image_files) THEN "batch_save"
             ELSE IF controller THEN "batch_should_stop" ELSE "batch_body"
    /\ UNCHANGED <<inputs, aside, flags, worker, batch>>

(* Lines 436-438: the loop head, and with a controller wait_if_paused, which
   returns once the pause is clear or a stop is set. *)
BatchWaitIfPaused ==
    /\ pc = "batch_top"
    /\ (idx <= Len(image_files) /\ controller) => ~(pause_set /\ ~stop_set)
    /\ pc' = IF idx > Len(image_files) THEN "batch_save"
             ELSE IF controller THEN "batch_should_stop" ELSE "batch_body"
    /\ UNCHANGED <<inputs, aside, flags, worker, batch>>

(* A faulty stop test at the loop head, which logs the stop and goes on. *)
BatchShouldStopGoesOn ==
    /\ pc = "batch_should_stop"
    /\ log' = IF stop_set THEN Append(log, LogLine("stopped", 0)) ELSE log
    /\ pc' = "batch_body"
    /\ UNCHANGED <<inputs, aside, flags, worker, image_files, idx, rel_path, output_files, output_bytes, ws, ws_cells,
                   excel, batch_return, written_after_stop>>

(* Lines 439-441: if controller.should_stop(): log, break *)
BatchShouldStop ==
    /\ pc = "batch_should_stop"
    /\ IF stop_set
       THEN /\ log' = Append(log, LogLine("stopped", 0))
            /\ pc' = "batch_save"
       ELSE /\ pc' = "batch_body"
            /\ UNCHANGED log
    /\ UNCHANGED <<inputs, aside, flags, worker, image_files, idx, rel_path, output_files, output_bytes, ws, ws_cells,
                   excel, batch_return, written_after_stop>>

(* Lines 538-542: except Exception.  The log line is built from rel_path; with
   the local unbound the handler itself raises, and the error leaves
   process_images. *)
ExceptException ==
    IF rel_path = 0
    THEN /\ pc' = "batch_crashed"
         /\ UNCHANGED <<idx, log>>
    ELSE /\ log' = Append(log, LogLine("error", rel_path))
         /\ NextFile

(* Lines 443-452: the size of the file is read, which may fail; rel_path is
   set; with a controller, the test of consume_skip. *)
BatchBody ==
    /\ pc = "batch_body"
    /\ IF ~image_files[idx].stat
       THEN /\ ExceptException
            /\ UNCHANGED rel_path
       ELSE /\ rel_path' = idx
            /\ pc' = IF controller /\ skip_set THEN "batch_skip_clear" ELSE "batch_process"
            /\ UNCHANGED <<idx, log>>
    /\ UNCHANGED <<inputs, aside, flags, worker, image_files, output_files, output_bytes, ws, ws_cells, excel,
                   batch_return, written_after_stop>>

(* Lines 55-56 and 453-456: the skip found set is cleared, the file skipped. *)
BatchConsumeSkipClear ==
    /\ pc = "batch_skip_clear"
    /\ skip_set' = FALSE
    /\ log' = Append(log, LogLine("skipped", rel_path))
    /\ NextFile
    /\ UNCHANGED <<inputs, aside, pause_set, stop_set, worker, image_files, rel_path, output_files, output_bytes,
                   ws, ws_cells, excel, batch_return, written_after_stop>>

(* A faulty write, which leaves the row out of the sheet. *)
WriteOutputNoRow(bytes, cells) ==
    /\ output_files' = Append(output_files, idx)
    /\ output_bytes' = Append(output_bytes, bytes)
    /\ ws' = ws
    /\ ws_cells' = ws_cells
    /\ written_after_stop' = written_after_stop + (IF stop_set THEN 1 ELSE 0)
    /\ NextFile

(* with open(output_file, "wb"), write, ws.append([str(rel_path), ...]) *)
WriteOutput(bytes, cells) ==
    /\ output_files' = Append(output_files, idx)
    /\ output_bytes' = Append(output_bytes, bytes)
    /\ ws' = Append(ws, rel_path)
    /\ ws_cells' = Append(ws_cells, cells)
    /\ written_after_stop' = written_after_stop + (IF stop_set THEN 1 ELSE 0)
    /\ NextFile

(* Lines 131-132 and 207-209: compress_image is entered on a new image. *)
EnterCompress ==
    /\ initial_quality' = initial_quality_guess(target_size_kb,
                                                image_files[idx].original_size_kb)
    /\ size_at' = BatchImage /\ saves' = <<>> /\ retrying' = FALSE /\ ops' = <<>>
    /\ tried' = {} /\ history' = <<>> /\ step' = 0 /\ try_count' = 0
    /\ lower_bound' = NoTrial /\ higher_bound' = NoTrial /\ next_quality' = 0
    /\ best_under' = NoTrial /\ best_quality' = 0 /\ best_size' = 0
    /\ best_bytes' = <<0, 0>> /\ best_method' = 0 /\ method' = 0
    /\ result' = NoResult
    /\ apply_scale' = FALSE
    /\ pc' = "open"
    /\ ensure_running

(* Lines 458-507: a file within the target is copied through; a larger one
   goes to compress_image, where Image.open may fail. *)
BatchProcess ==
    /\ pc = "batch_process"
    /\ IF image_files[idx].original_size_kb <= target_size_kb
       THEN /\ WriteOutput(CopyOf(idx), CopyCells(image_files[idx].original_size_kb))
            /\ UNCHANGED <<initial_quality, worker, log>>
       ELSE IF ~image_files[idx].decode
       THEN /\ ExceptException
            /\ UNCHANGED <<initial_quality, worker, output_files, output_bytes, ws, ws_cells, written_after_stop>>
       ELSE /\ EnterCompress
            /\ UNCHANGED <<idx, output_files, output_bytes, ws, ws_cells, log, written_after_stop>>
    /\ UNCHANGED <<aside, output_format, webp_method_default, target_size_kb, controller,
                   image_sizes, scale_settings, img_width, img_height, pillow_has_method,
                   flags, image_files, rel_path, excel, batch_return>>

(* Lines 508-528: compress_image has returned; the output file and its row. *)
BatchWrite ==
    /\ pc = "done" /\ idx > 0
    /\ \E reduction \in Reduction(result.size, image_files[idx].original_size_kb) :
         WriteOutput(Encoded(result.bytes),
                     CompressedCells(image_files[idx].original_size_kb, reduction))
    /\ UNCHANGED <<inputs, aside, flags, worker, image_files, rel_path, log, excel, batch_return>>

(* Lines 530-534: except SkipProcessing *)
BatchExceptSkip ==
    /\ pc = "skipped" /\ idx > 0
    /\ log' = Append(log, LogLine("skipped", rel_path))
    /\ NextFile
    /\ UNCHANGED <<inputs, aside, flags, worker, image_files, rel_path, output_files, output_bytes, ws, ws_cells, excel,
                   batch_return, written_after_stop>>

(* A faulty handler of StopProcessing, which returns where it should break. *)
BatchExceptStopReturns ==
    /\ pc = "stopped" /\ idx > 0
    /\ log' = Append(log, LogLine("stopped", 0))
    /\ batch_return' = [processed |-> Len(image_files), skipped |-> 0]
    /\ pc' = "batch_returned"
    /\ UNCHANGED <<inputs, aside, flags, worker, image_files, idx, rel_path, output_files, output_bytes, ws, ws_cells,
                   excel, written_after_stop>>

(* Lines 535-537: except StopProcessing *)
BatchExceptStop ==
    /\ pc = "stopped" /\ idx > 0
    /\ log' = Append(log, LogLine("stopped", 0))
    /\ pc' = "batch_save"
    /\ UNCHANGED <<inputs, aside, flags, worker, image_files, idx, rel_path, output_files, output_bytes, ws, ws_cells,
                   excel, batch_return, written_after_stop>>

(* Lines 538-542: an error has left compress_image. *)
BatchExceptFailed ==
    /\ pc = "failed" /\ idx > 0
    /\ ExceptException
    /\ UNCHANGED <<inputs, aside, flags, worker, image_files, rel_path, output_files, output_bytes, ws, ws_cells, excel,
                   batch_return, written_after_stop>>

(* Lines 544-547: wb.save(excel_path) and the return. *)
BatchSave ==
    /\ pc = "batch_save"
    /\ excel' = [saved |-> TRUE, rows |-> ws]
    /\ batch_return' = [processed |-> Len(image_files), skipped |-> 0]
    /\ pc' = "batch_returned"
    /\ UNCHANGED <<inputs, aside, flags, worker, image_files, idx, rel_path, output_files, output_bytes, ws, ws_cells, log,
                   written_after_stop>>

----------------------------------------------------------------------------
(* Specifications *)

Search == Open \/ Bootstrap \/ BracketLow \/ BracketHigh \/ LoopIter \/ ConvergeProbe
          \/ Tune

ControllerChecks == WaitIfPaused \/ ShouldStop \/ ConsumeSkip \/ ConsumeSkipClear

Driver == Pause \/ Resume \/ Stop \/ RequestSkip

Next == Search

NextCtl == Search \/ ControllerChecks \/ Driver

Batch == BatchStart \/ BatchWaitIfPaused \/ BatchShouldStop \/ BatchBody
         \/ BatchConsumeSkipClear \/ BatchProcess \/ BatchWrite \/ BatchExceptSkip
         \/ BatchExceptStop \/ BatchSave

Worker == Batch \/ Search \/ ControllerChecks

NextBatch == Worker \/ Driver

----------------------------------------------------------------------------
(* interpolate_quality on its own: lines 267-270 on any two trials *)

(* The qualities and the sizes of the trials handed to interpolate_quality *)
InterpQualities == {1, 10, 45, 80, 100}
InterpSizes == { GridSize(e) : e \in 0..MaxGridExp }

(* The call of line 269 with any two trials for the bounds and any target *)
InitInterp ==
    /\ pillow_has_method = TRUE
    /\ output_format = "WEBP"
    /\ webp_method_default = MaxWebpMethod
    /\ target_size_kb \in InterpSizes
    /\ initial_quality = 37
    /\ image_sizes = InterpSizes
    /\ size_at = <<>>
    /\ NoController
    /\ NoBatch
    /\ NoAside
    /\ NoScaling
    /\ saves = <<>> /\ retrying = FALSE /\ ops = <<>>
    /\ tried = {} /\ history = <<>> /\ step = InitialStep * StepScale /\ try_count = 1
    /\ \E ql \in InterpQualities, qh \in InterpQualities, sl \in InterpSizes, sh \in InterpSizes :
         /\ lower_bound = [q |-> ql, s |-> sl, b |-> <<ql, webp_method_default>>]
         /\ higher_bound = [q |-> qh, s |-> sh, b |-> <<qh, webp_method_default>>]
    /\ next_quality = 0
    /\ best_under = NoTrial /\ best_quality = 0 /\ best_size = 0
    /\ best_bytes = <<0, 0>> /\ best_method = 0 /\ method = 0
    /\ result = NoResult
    /\ pc = "interpolate"

(* Lines 269-270: predicted_quality = interpolate_quality(...), next_quality
   its rounding, clamped; an error of the function leaves the caller. *)
Interpolate ==
    /\ pc = "interpolate"
    /\ IF InterpolationRaises(lower_bound.q, lower_bound.s, higher_bound.q, higher_bound.s,
                              target_size_kb)
       THEN /\ pc' = "failed"
            /\ UNCHANGED next_quality
       ELSE /\ next_quality' \in Candidates(lower_bound, higher_bound)
            /\ pc' = "interpolated"
    /\ UNCHANGED <<batch, apply_scale, inputs, aside, flags, codec, er, ops, pending, tried, history,
                   step, try_count, lower_bound, higher_bound, tuning, result>>

(* The search, and interpolate_quality on its own *)
InitPredict == Init \/ InitInterp

NextPredict == Search \/ Interpolate

SpecPredict == InitPredict /\ [][NextPredict]_vars

----------------------------------------------------------------------------
(* ProcessingController on its own: a driver thread that calls request_skip,
   a worker thread that calls consume_skip in a loop *)

MaxRequests == 8

(* A new controller (lines 29-32), the worker before its first consume_skip *)
InitSkip ==
    /\ pillow_has_method = TRUE
    /\ output_format = "WEBP"
    /\ webp_method_default = MaxWebpMethod
    /\ target_size_kb = GridSize(MaxGridExp - 2)
    /\ initial_quality = 37
    /\ image_sizes = Sizes
    /\ controller = TRUE
    /\ pause_set = FALSE /\ stop_set = FALSE /\ skip_set = FALSE
    /\ size_at = <<>> /\ saves = <<>> /\ retrying = FALSE
    /\ pc = "polling" /\ er = "consume_skip" /\ ops = <<>> /\ pending = FALSE
    /\ tried = {} /\ history = <<>> /\ step = 0 /\ try_count = 0
    /\ lower_bound = NoTrial /\ higher_bound = NoTrial /\ next_quality = 0
    /\ best_under = NoTrial /\ best_quality = 0 /\ best_size = 0
    /\ best_bytes = <<0, 0>> /\ best_method = 0 /\ method = 0
    /\ result = NoResult
    /\ NoBatch
    /\ NoScaling
    /\ NoAside

(* The frame of the controller alone: all but _skip, the position of the
   worker in consume_skip and the two counts *)
SkipFrame ==
    UNCHANGED <<inputs, pause_set, stop_set, codec, pc, ops, pending, search, tuning, result,
                batch, apply_scale, ui, naming>>

(* Lines 40-41, on the driver thread: self._skip.set() *)
DriverRequestSkip ==
    /\ pc = "polling"
    /\ skip_requests < MaxRequests
    /\ skip_set' = TRUE
    /\ skip_requests' = skip_requests + 1
    /\ UNCHANGED <<er, skip_results>>
    /\ SkipFrame

(* Line 53: if self._skip.is_set(); line 56: return False, and the worker
   calls again. *)
PollSkipTest ==
    /\ pc = "polling" /\ er = "consume_skip"
    /\ er' = IF skip_set THEN "skip_clear" ELSE "consume_skip"
    /\ UNCHANGED <<skip_set, skip_requests, skip_results>>
    /\ SkipFrame

(* A faulty consume_skip, which returns True and leaves the flag set. *)
PollSkipKeeps ==
    /\ pc = "polling" /\ er = "skip_clear"
    /\ skip_results' = skip_results + 1
    /\ er' = "consume_skip"
    /\ UNCHANGED <<skip_set, skip_requests>>
    /\ SkipFrame

(* Lines 54-55: self._skip.clear(); return True, and the worker calls again. *)
PollSkipClear ==
    /\ pc = "polling" /\ er = "skip_clear"
    /\ skip_set' = FALSE
    /\ skip_results' = skip_results + 1
    /\ er' = "consume_skip"
    /\ UNCHANGED skip_requests
    /\ SkipFrame

PollSkip == PollSkipTest \/ PollSkipClear

NextSkip == DriverRequestSkip \/ PollSkip

(* The controller alone, the worker polling for ever *)
LiveSkip == InitSkip /\ [][NextSkip]_vars /\ WF_vars(PollSkip)

-----------------------------------------------------------------------------
(* launch_gui: the Tk main thread, which runs the button handlers and the
   callbacks posted with root.after, and the worker threads run_process
   starts.  A worker is process_images_gui as far as its controller goes. *)

MaxRuns == 3

(* Lines 29-32 of image_api.py: three Events, none set *)
ClearFlags == [pause |-> FALSE, stop |-> FALSE, skip |-> FALSE]

(* A run_process that makes a controller once and keeps it for later runs. *)
ReuseController(cs) == IF cs = <<>> THEN <<ClearFlags>> ELSE cs

(* Line 147: controller = ProcessingController() *)
CreateController(cs) == Append(cs, ClearFlags)

(* The window as launch_gui builds it, nothing else in use *)
InitUI ==
    /\ pillow_has_method = TRUE
    /\ output_format = "WEBP"
    /\ webp_method_default = MaxWebpMethod
    /\ target_size_kb = GridSize(MaxGridExp - 2)
    /\ initial_quality = 37
    /\ image_sizes = Sizes
    /\ controller = TRUE
    /\ pause_set = FALSE /\ stop_set = FALSE /\ skip_set = FALSE
    /\ size_at = <<>> /\ saves = <<>> /\ retrying = FALSE
    /\ pc = "mainloop" /\ er = "none" /\ ops = <<>> /\ pending = FALSE
    /\ tried = {} /\ history = <<>> /\ step = 0 /\ try_count = 0
    /\ lower_bound = NoTrial /\ higher_bound = NoTrial /\ next_quality = 0
    /\ best_under = NoTrial /\ best_quality = 0 /\ best_size = 0
    /\ best_bytes = <<0, 0>> /\ best_method = 0 /\ method = 0
    /\ result = NoResult
    /\ NoBatch
    /\ NoScaling
    /\ NoAside

UIFrame ==
    UNCHANGED <<inputs, flags, codec, pc, er, ops, pending, search, tuning, result, batch,
                apply_scale, skips, naming>>

(* Line 74: Run is disabled while running *)
RunEnabled == ~ui_running

(* Line 75 *)
PauseEnabled == ui_running /\ ~ui_paused

(* Line 76 *)
ContinueEnabled == ui_running /\ ui_paused

(* Lines 77-78: Skip and Stop *)
SkipStopEnabled == ui_running

(* The flags of controller c with flag f set to v *)
WithFlag(c, f, v) == [ui_controllers EXCEPT ![c] = [@ EXCEPT ![f] = v]]

(* Lines 118-154, on a press of Run.  Input that does not parse shows an error
   and returns (lines 143-145); otherwise a controller is made, the buttons are
   set to running and a worker thread is started on that controller. *)
RunProcess ==
    /\ pc = "mainloop"
    /\ RunEnabled
    /\ Len(ui_workers) < MaxRuns
    /\ \E valid \in BOOLEAN :
          IF ~valid
          THEN UNCHANGED ui
          ELSE /\ ui_controllers' = CreateController(ui_controllers)
               /\ ui_controller' = Len(ui_controllers')
               /\ ui_running' = TRUE
               /\ ui_paused' = FALSE
               /\ ui_workers' = Append(ui_workers,
                                       [controller |-> ui_controller', at |-> "running"])
    /\ UIFrame

(* Lines 100-103, on a press of Pause *)
OnPause ==
    /\ pc = "mainloop"
    /\ PauseEnabled
    /\ ui_controller # 0
    /\ ui_controllers' = WithFlag(ui_controller, "pause", TRUE)
    /\ ui_running' = TRUE
    /\ ui_paused' = TRUE
    /\ UNCHANGED <<ui_controller, ui_workers>>
    /\ UIFrame

(* Lines 105-108, on a press of Continue *)
OnContinue ==
    /\ pc = "mainloop"
    /\ ContinueEnabled
    /\ ui_controller # 0
    /\ ui_controllers' = WithFlag(ui_controller, "pause", FALSE)
    /\ ui_running' = TRUE
    /\ ui_paused' = FALSE
    /\ UNCHANGED <<ui_controller, ui_workers>>
    /\ UIFrame

(* Lines 110-112, on a press of Skip *)
OnSkip ==
    /\ pc = "mainloop"
    /\ SkipStopEnabled
    /\ ui_controller # 0
    /\ ui_controllers' = WithFlag(ui_controller, "skip", TRUE)
    /\ UNCHANGED <<ui_running, ui_paused, ui_controller, ui_workers>>
    /\ UIFrame

(* Lines 114-116, on a press of Stop *)
OnStop ==
    /\ pc = "mainloop"
    /\ SkipStopEnabled
    /\ ui_controller # 0
    /\ ui_controllers' = WithFlag(ui_controller, "stop", TRUE)
    /\ UNCHANGED <<ui_running, ui_paused, ui_controller, ui_workers>>
    /\ UIFrame

(* The worker in process_images between two files (image_api.py lines
   436-456): neither stopped nor paused, it consumes a pending skip of the
   controller it was started with. *)
WorkerConsumeSkip(w) ==
    /\ pc = "mainloop"
    /\ w \in 1..Len(ui_workers)
    /\ ui_workers[w].at = "running"
    /\ LET c == ui_workers[w].controller
       IN  /\ ~ui_controllers[c].stop
           /\ ~ui_controllers[c].pause
           /\ ui_controllers[c].skip
           /\ ui_controllers' = WithFlag(c, "skip", FALSE)
    /\ UNCHANGED <<ui_running, ui_paused, ui_controller, ui_workers>>
    /\ UIFrame

(* Lines 181-194: process_images returns or raises, after its last file or on
   a stop, and the finally clause posts set_running_state(running=False). *)
WorkerFinish(w) ==
    /\ pc = "mainloop"
    /\ w \in 1..Len(ui_workers)
    /\ ui_workers[w].at = "running"
    /\ ui_workers' = [ui_workers EXCEPT ![w].at = "posted"]
    /\ UNCHANGED <<ui_running, ui_paused, ui_controllers, ui_controller>>
    /\ UIFrame

(* Line 194, on the main thread: the posted set_running_state(running=False) *)
TkCallback(w) ==
    /\ pc = "mainloop"
    /\ w \in 1..Len(ui_workers)
    /\ ui_workers[w].at = "posted"
    /\ ui_running' = FALSE
    /\ ui_paused' = FALSE
    /\ ui_workers' = [ui_workers EXCEPT ![w].at = "ended"]
    /\ UNCHANGED <<ui_controllers, ui_controller>>
    /\ UIFrame

NextUI ==
    \/ RunProcess
    \/ OnPause
    \/ OnContinue
    \/ OnSkip
    \/ OnStop
    \/ \E w \in 1..MaxRuns : WorkerConsumeSkip(w)
    \/ \E w \in 1..MaxRuns : WorkerFinish(w)
    \/ \E w \in 1..MaxRuns : TkCallback(w)

(* The window and its workers *)
SpecUI == InitUI /\ [][NextUI]_vars

-----------------------------------------------------------------------------
(* process_images as far as the names of its output files go: the files found
   under the input folder, each a folder relative to the input folder, a stem
   and a suffix, and the output file of each. *)

MaxFound == 2

(* config.py lines 6-13, and the default of the get of line 446 *)
EXTENSION_MAP(format) ==
    CASE format = "JPEG" -> ".jpg"
      [] format = "PNG"  -> ".png"
      [] format = "WEBP" -> ".webp"
      [] format \in {"HEIF", "HEIC"} -> ".heic"
      [] OTHER -> ".jpg"

(* Input files: in the input folder itself (rel_path.parent is ".") or in a
   subfolder, with suffixes of SUPPORTED_FORMATS. *)
FoundFiles ==
    [folder : {".", "sub"}, stem : {"a", "b"}, suffix : {".jpg", ".png"}]

(* Lines 373-376: what rglob finds, distinct files in some order *)
FoundLists ==
    { fs \in UNION { [1..n -> FoundFiles] : n \in 0..MaxFound } :
        \A i, j \in DOMAIN fs : i # j => fs[i] # fs[j] }

(* path / rel_folder of pathlib, which drops a "." *)
Under(path, rel_folder) ==
    IF rel_folder = "." THEN path ELSE path \o "/" \o rel_folder

(* Lines 445-446 and 458-469: output_file of an input file *)
OutputFile(file, mode, target, format) ==
    LET output_ext == EXTENSION_MAP(format)
    IN  IF mode = "prefix"
        THEN Under("out", file.folder) \o "/"
                \o file.stem \o "_" \o ToString(target) \o "kb" \o output_ext
        ELSE Under("out" \o "/" \o ToString(target), file.folder) \o "/"
                \o file.stem \o output_ext

(* process_images at the head of its loop, the files found *)
InitNaming ==
    /\ pillow_has_method = TRUE
    /\ output_format \in {"WEBP", "JPEG", "PNG"}
    /\ webp_method_default = MaxWebpMethod
    /\ target_size_kb = GridSize(MaxGridExp - 2)
    /\ initial_quality = 37
    /\ image_sizes = Sizes
    /\ controller = FALSE
    /\ pause_set = FALSE /\ stop_set = FALSE /\ skip_set = FALSE
    /\ size_at = <<>> /\ saves = <<>> /\ retrying = FALSE
    /\ pc = "naming" /\ er = "none" /\ ops = <<>> /\ pending = FALSE
    /\ tried = {} /\ history = <<>> /\ step = 0 /\ try_count = 0
    /\ lower_bound = NoTrial /\ higher_bound = NoTrial /\ next_quality = 0
    /\ best_under = NoTrial /\ best_quality = 0 /\ best_size = 0
    /\ best_bytes = <<0, 0>> /\ best_method = 0 /\ method = 0
    /\ result = NoResult
    /\ NoBatch
    /\ NoScaling
    /\ NoSkips /\ NoRuns
    /\ found_files \in FoundLists
    /\ output_naming_mode \in {"prefix", "folder"}
    /\ found_idx = 1
    /\ written_paths = <<>>

NamingFrame ==
    UNCHANGED <<inputs, flags, codec, pc, er, ops, pending, search, tuning, result, batch,
                apply_scale, skips, ui, found_files, output_naming_mode>>

(* Lines 436-528, one iteration that writes its output file (lines 477-478
   or 508-509) *)
NamingWrite ==
    /\ pc = "naming"
    /\ found_idx <= Len(found_files)
    /\ written_paths' =
          Append(written_paths,
                 [image_file |-> found_idx,
                  output_file |-> OutputFile(found_files[found_idx], output_naming_mode,
                                             target_size_kb, output_format)])
    /\ found_idx' = found_idx + 1
    /\ NamingFrame

(* Lines 530-542, one iteration that fails or is skipped before it writes *)
NamingNoWrite ==
    /\ pc = "naming"
    /\ found_idx <= Len(found_files)
    /\ found_idx' = found_idx + 1
    /\ UNCHANGED written_paths
    /\ NamingFrame

NextNaming == NamingWrite \/ NamingNoWrite

(* The names of the output files of a batch *)
SpecNaming == InitNaming /\ [][NextNaming]_vars

(* The search alone *)
Spec == Init /\ [][Next]_vars

(* The search alone, every step of it eventually taken *)
LiveSpec == Init /\ [][Next]_vars /\ WF_vars(Next)

(* The search with the size at quality 1 known beforehand *)
SpecQ1 == InitQ1 /\ [][Next]_vars

(* The search polling a controller that a driver thread sets *)
SpecCtl == InitCtl /\ [][NextCtl]_vars

(* The opening of compress_image alone, on any scale settings *)
SpecScale == InitScale /\ [][Open]_vars

(* process_images without a controller, on a codec whose img.save may raise *)
NextCodec == BatchStart \/ BatchWaitIfPaused \/ BatchBody \/ BatchProcess \/ BatchWrite
             \/ BatchExceptFailed \/ BatchSave \/ Search \/ SaveRejected \/ SaveFails

SpecCodec == InitCodec /\ [][NextCodec]_vars

(* process_images on a list of files, a driver thread at the controller *)
SpecBatch == InitBatch /\ [][NextBatch]_vars

(* The same, every step of the worker eventually taken *)
LiveBatch == InitBatch /\ [][NextBatch]_vars /\ WF_vars(Worker)

----------------------------------------------------------------------------
(* Properties of the search *)

Lossy == ~is_lossless

Done == pc = "done"

(* Some trial of the history is at or below the target. *)
SomeUnder == \E i \in 1..Len(history) : history[i].s <= target_size_kb

(* The tuning probes made so far: the encodes beyond those of the history. *)
TuningProbes == Len(saves) - Len(history)

(* C1: when a lossy run has returned and at least one trial of its quality
   search was at or below the target, the returned size is at or below the
   target, method tuning included, and it is the size of the returned bytes;
   a result over the target means every trial was over the target. *)
C1_ResultWithinTarget ==
    (Done /\ Lossy /\ SomeUnder)
        => /\ result.size <= target_size_kb
           /\ result.bytes \in DOMAIN size_at
           /\ size_at[result.bytes] = result.size

(* A WEBP run that saw trials on both sides of the target and returned the
   bytes of a tuning probe. *)
C1_Witness ==
    /\ Done /\ output_format = "WEBP" /\ SomeUnder
    /\ \E i \in 1..Len(history) : history[i].s > target_size_kb
    /\ TuningProbes > 0
    /\ result.method # webp_method_default
    /\ result.size <= target_size_kb

(* The trial the quality search selected: the best-under trial of the final
   selection, or else the trial that was returned as it is. *)
Selected ==
    IF best_under # NoTrial THEN best_under
    ELSE [q |-> result.quality, s |-> result.size, b |-> result.bytes]

(* C2: in every lossy run that has returned, early returns after a bracket
   probe included, the selected trial is a trial of the history; it is the one
   of largest size among those at or below the target when there is one, and
   the one of smallest size of the history otherwise. *)
C2_SelectionIsBest ==
    (Done /\ Lossy)
        => /\ \E i \in 1..Len(history) : history[i] = Selected
           /\ IF SomeUnder
              THEN /\ Selected.s <= target_size_kb
                   /\ \A i \in 1..Len(history) :
                        history[i].s <= target_size_kb => history[i].s <= Selected.s
              ELSE \A i \in 1..Len(history) : Selected.s <= history[i].s

(* C3: the quality search (bootstrap, bracket probe, converge probes; the
   tuning probes are not counted) makes at most 12 probes on one image, and
   every one of them is an encode at the default method. *)
C3_BoundedTrials ==
    /\ Len(history) <= 12
    /\ Lossy => Len(history) = Cardinality({ i \in 1..Len(saves) :
                                             saves[i][2] = webp_method_default })

(* A run that used up its iteration budget, every iteration on a probe. *)
C3_Witness ==
    /\ Done /\ try_count = MaxTryCount + 1
    /\ Len(history) = MaxTryCount + 1

(* C4: with no pause in the way, compress_image eventually returns, whatever
   the sizes the encodes come out at, the target and the initial quality
   (those clamped to 1 and to 100 included, where the bracket probe is
   skipped): the converge loop does not spin on iterations that halve the
   step without a probe, and an exhausted budget ends in the final
   selection. *)
C4_Termination == <>Done

(* A returned run whose bootstrap was at quality 1 or 100 and already tried
   when the bracket probe was due, that spent iterations on halving the step
   without a probe and left the loop on its budget. *)
C4_Witness ==
    /\ Done /\ Lossy
    /\ history[1].q \in {min_quality, max_quality}
    /\ try_count = MaxTryCount + 1
    /\ try_count > Len(history)
    /\ step >= StepScale

(* The size of the encode at quality 1 and the default method, when known. *)
Q1Args == <<min_quality, webp_method_default>>

Q1Known == Q1Args \in DOMAIN size_at

Q1Trial == Trial(min_quality, size_at[Q1Args], webp_method_default)

(* C5 as stated: whenever the size at quality 1 exceeds the target, a run that
   has returned has returned the quality-1 trial. *)
C5_Q1OverReturnsQ1 ==
    (Done /\ Lossy /\ Q1Known /\ size_at[Q1Args] > target_size_kb)
        => result = Returned(Q1Trial, webp_method_default)

(* C5, amended: when the size at quality 1 exceeds the target and the
   bootstrap trial exceeds the target too, the search probes nothing but the
   bootstrap quality and quality 1, and a run that has returned has returned
   the quality-1 trial. *)
C5_UnreachableTarget ==
    (Lossy /\ Q1Known /\ size_at[Q1Args] > target_size_kb
       /\ Len(history) >= 1 /\ history[1].s > target_size_kb)
        => /\ \A i \in 1..Len(saves) : saves[i] \in {<<q_initial, webp_method_default>>, Q1Args}
           /\ Len(saves) <= 2
           /\ Done => result = Returned(Q1Trial, webp_method_default)

(* A run whose bootstrap above quality 1 and whose probe at quality 1 were
   both over the target, returned with the quality-1 trial. *)
C5_Witness ==
    /\ Done /\ Lossy
    /\ Len(history) = 2 /\ history[1].q > min_quality /\ history[1].s > target_size_kb
    /\ history[2].q = min_quality /\ history[2].s > target_size_kb
    /\ result.quality = min_quality /\ result.size > target_size_kb

(* C6: when the bootstrap trial is at or below the target and was not itself
   at quality 100, the next probe is at quality 100; when that trial is at
   or below the target too, the run has returned it, with no further encode. *)
C6_BracketHigh ==
    (Lossy /\ Len(history) >= 1 /\ history[1].s <= target_size_kb /\ history[1].q # 100)
        => /\ Len(history) = 1 => pc = "bracket_high"
           /\ Len(history) >= 2 => history[2].q = 100
           /\ (Len(history) >= 2 /\ history[2].s <= target_size_kb)
                => /\ Done
                   /\ Len(history) = 2 /\ Len(saves) = 2
                   /\ result = Returned(history[2], webp_method_default)

(* A run returned with its quality-100 trial, which is smaller than its
   bootstrap trial. *)
C6_Witness ==
    /\ Done /\ Lossy /\ Len(history) = 2
    /\ history[1].q # 100 /\ history[1].s <= target_size_kb
    /\ history[2].q = 100 /\ history[2].s < history[1].s
    /\ result.quality = 100

(* C7: for the output format PNG the run makes one encode, with the PNG
   parameters whatever the target and the initial quality, never enters the
   search or the tuning, and returns that encode with quality 100 and the
   method -1; its size is the size of the encode at those parameters. *)
C7_LosslessOneEncode ==
    output_format = "PNG"
        => /\ pc \in {"open", "done"}
           /\ Len(saves) <= 1
           /\ history = <<>> /\ tried = {} /\ try_count = 0 /\ step = 0
           /\ best_under = NoTrial /\ method = 0
           /\ Done => /\ saves = <<PngArgs>>
                      /\ result = [bytes |-> PngArgs, quality |-> 100,
                                   size |-> size_at[PngArgs], method |-> -1]

(* A PNG run returned with a size over its target, from an initial quality
   out of range. *)
C7_Witness ==
    /\ output_format = "PNG" /\ Done
    /\ result.method = -1 /\ result.size > target_size_kb
    /\ initial_quality > 100

(* C8: no two trials of the history are at the same quality, tried is the set
   of the qualities of the history, no encode is made twice with the same
   parameters, and the quality about to be probed is not a tried one. *)
C8_UniqueQualities ==
    /\ \A i, j \in 1..Len(history) : i # j => history[i].q # history[j].q
    /\ tried = { history[i].q : i \in 1..Len(history) }
    /\ \A i, j \in 1..Len(saves) : i # j => saves[i] # saves[j]
    /\ pc = "converge" => next_quality \notin tried

(* The loop has proposed a tried quality and spent the iteration on halving
   the step instead of a probe. *)
C8_Witness ==
    /\ pc = "loop" /\ try_count > Len(history)
    /\ next_quality \in tried
    /\ step < InitialStep * StepScale

(* C9: every quality of an encode, of the history, of the next probe and of
   the result of a lossy run is an integer from 1 to 100. *)
C9_QualitiesInRange ==
    Lossy => /\ \A i \in 1..Len(history) : history[i].q \in 1..100
             /\ \A i \in 1..Len(saves) : saves[i][1] \in 1..100
             /\ tried \subseteq 1..100
             /\ pc = "converge" => next_quality \in 1..100
             /\ Done => result.quality \in 1..100

(* A run from the initial quality 150 that went through converge probes and
   returned. *)
C9_Witness ==
    /\ Done /\ Lossy /\ initial_quality = 150
    /\ Len(history) >= 4
    /\ result.quality < 100

(* The last three controller methods the worker has called. *)
LastChecks == SubSeq(ops, Len(ops) - 2, Len(ops))

(* C10: every encode of a run with a controller comes after a controller
   check made since the previous encode, in the order wait_if_paused,
   should_stop, consume_skip; and no encode follows a check that began with
   stop or skip set. *)
C10_SuspensionPoints ==
    [][ Len(saves') > Len(saves)
          => /\ controller
             /\ Len(ops) >= 3
             /\ LastChecks = <<"wait_if_paused", "should_stop", "consume_skip">>
             /\ ~pending ]_vars

(* After earlier probes, a check that began with a skip pending has ended the
   run before the tuning probe it guarded. *)
C10_Witness ==
    /\ controller /\ pending
    /\ pc = "skipped"
    /\ best_under # NoTrial
    /\ Len(saves) = Len(history)

----------------------------------------------------------------------------
(* Properties of the batch *)

(* The worker has seen the stop request: the log says so. *)
StopObserved == \E i \in 1..Len(log) : log[i].kind = "stopped"

(* The files an output file was written for *)
Written == { output_files[i] : i \in 1..Len(output_files) }

(* C11: once the worker has seen a stop request, at the loop head or in the
   search, the file in flight gets no output file, no later file is started
   and the loop is left; from the call of stop() on, at most one output
   file is written. *)
C11_StopIsBatchFatal ==
    /\ written_after_stop <= 1
    /\ pc = "stopped" => idx \notin Written
    /\ StopObserved
         => /\ pc \in {"batch_save", "batch_returned"}
            /\ log[Len(log)].kind = "stopped"
            /\ idx = log[Len(log)].file
            /\ \A f \in Written : f < idx

(* A batch stopped in the search of its second file, after the stop request
   had let the first file through to its output. *)
C11_Witness ==
    /\ pc = "batch_returned" /\ StopObserved
    /\ idx = 2 /\ Len(saves) > 0
    /\ written_after_stop = 1
    /\ output_files = <<1>>

(* C12: from the moment the stop is seen no output file and no row is added,
   and process_images returns after having saved the workbook, with exactly
   the rows of the files whose output was written before the stop. *)
C12_StopLeavesReport ==
    [][ /\ StopObserved => (output_files' = output_files /\ ws' = ws)
        /\ (StopObserved' /\ pc' = "batch_returned")
             => /\ excel'.saved
                /\ excel'.rows = output_files'
                /\ batch_return' # NoReturn ]_vars

(* A stopped batch has returned with a saved workbook of one row. *)
C12_Witness ==
    /\ pc = "batch_returned" /\ StopObserved
    /\ excel.saved /\ Len(excel.rows) = 1
    /\ Len(image_files) = 2

(* C13: a skip requested while a file is in process keeps that file from being
   written: no output file is written while a skip request is pending. *)
C13_SkipOnlyInFlight ==
    [][ output_files' # output_files => ~skip_set ]_vars

(* The "skipped" lines of the log, and the files skipped so far: those logged
   and the one whose search has just raised SkipProcessing. *)
SkippedLines == { i \in 1..Len(log) : log[i].kind = "skipped" }

Skips == Cardinality(SkippedLines) + (IF pc = "skipped" THEN 1 ELSE 0)

(* C14: consume_skip returns true only on a pending request, which it clears,
   and the flag is raised by request_skip alone, the worker standing still:
   every file skipped uses up a request of its own. *)
C14_SkipOneShot ==
    [][ /\ Skips' # Skips
             => /\ Skips' = Skips + 1
                /\ skip_set /\ ~skip_set'
        /\ (~skip_set /\ skip_set')
             => /\ Skips' = Skips
                /\ pc' = pc /\ er' = er /\ batch' = batch ]_vars

(* The first file was skipped inside its search, the second one written, no
   request left. *)
C14_Witness ==
    /\ Skips = 1 /\ ~skip_set
    /\ \E i \in SkippedLines : log[i].file = 1
    /\ Len(saves) > 0
    /\ output_files = <<2>>
    /\ pc = "batch_returned"

(* The worker is at a call of wait_if_paused: in ensure_running before a
   probe, or at the head of the loop before a file. *)
AtWait ==
    \/ er = "wait_if_paused"
    \/ pc = "batch_top" /\ idx <= Len(image_files) /\ controller

Paused == pause_set /\ ~stop_set

(* C15: from a call of wait_if_paused made while the pause is set and no stop
   is, the worker does not move: no encode, no new file, no output, whatever
   the step taken. *)
C15_PauseSafety ==
    [][ (AtWait /\ Paused)
          => /\ pc' = pc /\ er' = er
             /\ codec' = codec /\ search' = search /\ tuning' = tuning
             /\ idx' = idx /\ output_files' = output_files /\ ws' = ws
             /\ log' = log ]_vars

(* The worker waits before a probe in the search of the second file. *)
C15_Witness ==
    /\ er = "wait_if_paused" /\ Paused
    /\ idx = 2 /\ Len(saves) > 0
    /\ output_files = <<1>>

BatchOver == pc \in {"batch_returned", "batch_crashed"}

(* C16: if from some moment on the pause is clear or a stop is set, the worker
   leaves every wait and process_images comes to its end; and a worker at
   wait_if_paused with a stop set, the pause set or not, goes on to see the
   stop and the batch returns. *)
C16_PauseLiveness ==
    /\ (<>[]~Paused) => <>BatchOver
    /\ (AtWait /\ stop_set) ~> (pc = "batch_returned" /\ StopObserved)

(* The batch has returned on a stop seen inside a search, the pause still
   set. *)
C16_Witness ==
    /\ pc = "batch_returned" /\ StopObserved
    /\ pause_set /\ stop_set
    /\ Len(ops) > 0 /\ Len(saves) > 0 /\ result = NoResult

(* The "error" lines of the log *)
ErrorLines == { i \in 1..Len(log) : log[i].kind = "error" }

(* C17: a failure on a file never leaves process_images, and its log line
   carries the name of the file that failed. *)
C17_FailuresContained ==
    /\ pc # "batch_crashed"
    /\ \A i \in ErrorLines : log[i].name = log[i].file

(* C18: process_images returns counts that leave out the files that ended in
   an error. *)
C18_ErrorsNotCounted ==
    pc = "batch_returned"
      => batch_return.processed + batch_return.skipped
           <= Len(image_files) - Cardinality(ErrorLines)

(* C19: the sheet has one row for each output file written, in the order of
   the files, none for a file logged as skipped or failed nor for a file not
   reached; the saved workbook holds these rows. *)
C19_ReportRows ==
    /\ Len(ws) = Len(output_files)
    /\ \A i \in 1..Len(ws) : ws[i] = output_files[i]
    /\ \A i, j \in 1..Len(ws) : i < j => ws[i] < ws[j]
    /\ \A i \in 1..Len(ws) :
         /\ ws[i] \in 1..Len(image_files)
         /\ ws[i] <= idx
         /\ ~\E k \in SkippedLines \cup ErrorLines : log[k].file = ws[i]
    /\ StopObserved => \A i \in 1..Len(ws) : ws[i] < idx
    /\ excel.saved => excel.rows = ws

(* A batch of two files has returned with the row of its second file, the
   first one skipped or failed. *)
C19_Witness ==
    /\ pc = "batch_returned" /\ excel.saved
    /\ Len(image_files) = 2
    /\ excel.rows = <<2>> /\ output_files = <<2>>
    /\ \E k \in SkippedLines \cup ErrorLines : log[k].file = 1

(* C20: a run makes a method-tuning probe, or stands before one, only if the
   format is WEBP and the best trial under the target is below 95 % of the
   target; a run whose final selection found a trial under the target and
   that is not in this case returns that trial as it is, with the default
   method. *)
C20_TuningGated ==
    LET slack == /\ output_format = "WEBP"
                 /\ best_under # NoTrial
                 /\ 20 * best_under.s < 19 * target_size_kb
    IN  /\ ((Lossy /\ TuningProbes > 0) \/ pc = "tune") => slack
        /\ (Done /\ Lossy /\ best_under # NoTrial /\ ~slack)
             => /\ result = Returned(best_under, webp_method_default)
                /\ TuningProbes = 0

(* A WEBP run with slack has made tuning probes and returned a lower method. *)
C20_Witness ==
    /\ Done /\ output_format = "WEBP"
    /\ best_under # NoTrial
    /\ 20 * best_under.s < 19 * target_size_kb
    /\ TuningProbes > 0
    /\ result.method < webp_method_default

----------------------------------------------------------------------------
(* Properties of the method tuning and of the converge loop *)

(* The k-th tuning probe: the encode k places after those of the history. *)
TuningProbe(k) == saves[Len(history) + k]

(* The sizes at or below the target among the trial selected before the
   tuning and the tuning probes made. *)
TunedSizes ==
    {best_under.s}
      \cup { size_at[TuningProbe(k)] : k \in { j \in 1..TuningProbes :
                                               size_at[TuningProbe(j)] <= target_size_kb } }

(* C21: the tuning probes are made at the quality of the selected trial with
   the methods default-1, default-2, ... in this order, and none follows a
   probe above the target; the run returns the largest size at or below the
   target among the selected trial and the probes, at the quality of the
   selected trial, with the bytes of the encode that first gave this size
   and the method of that encode. *)
C21_TuningResult ==
    (Lossy /\ best_under # NoTrial /\ pc \in {"tune", "done"})
      => /\ \A k \in 1..TuningProbes :
              /\ TuningProbe(k) = <<best_under.q, webp_method_default - k>>
              /\ k < TuningProbes => size_at[TuningProbe(k)] <= target_size_kb
         /\ Done =>
              /\ TuningProbes > 0
                   => \/ size_at[TuningProbe(TuningProbes)] > target_size_kb
                      \/ TuningProbes = webp_method_default
              /\ result.quality = best_under.q
              /\ result.size \in TunedSizes
              /\ \A s \in TunedSizes : s <= result.size
              /\ size_at[result.bytes] = result.size
              /\ result.bytes = <<result.quality, result.method>>
              /\ result.size = best_under.s => result.bytes = best_under.b
              /\ \A k \in 1..TuningProbes :
                   size_at[TuningProbe(k)] = result.size
                     => result.method >= webp_method_default - k

(* A tuned run has adopted its first probe and stopped at its second one,
   which came out above the target. *)
C21_Witness ==
    /\ Done /\ Lossy /\ best_under # NoTrial
    /\ TuningProbes = 2
    /\ result.method = webp_method_default - 1
    /\ result.size > best_under.s
    /\ size_at[TuningProbe(2)] > target_size_kb

(* The two conditions of the scale settings: threshold and dimension *)
ScaleConditions ==
    { [threshold |-> scale_settings.cond_width,  dimension |-> img_width],
      [threshold |-> scale_settings.cond_height, dimension |-> img_height] }

ActiveConditions == { c \in ScaleConditions : c.threshold > 0 }

ConditionMet(c) == c.dimension > c.threshold

(* C22: once compress_image has opened the image, scaling is applied exactly
   if settings are given, the mode is not Off, and the condition is disabled,
   or the logic is OR and some active condition is met, or the logic is AND,
   some condition is active and every active condition is met.  An image
   wider but not higher than the two thresholds is not scaled under AND, nor
   is any image under AND with no active condition. *)
C22_ScaleDecision ==
    pc # "open"
      => /\ apply_scale
              <=> /\ scale_settings # NoSettings
                  /\ scale_settings.mode # "Off"
                  /\ \/ scale_settings.condition # "On"
                     \/ /\ scale_settings.cond_logic = "OR (Any condition met)"
                        /\ \E c \in ActiveConditions : ConditionMet(c)
                     \/ /\ scale_settings.cond_logic = "AND (All conditions met)"
                        /\ ActiveConditions # {}
                        /\ \A c \in ActiveConditions : ConditionMet(c)
         /\ ( /\ scale_settings.condition = "On"
              /\ scale_settings.cond_logic = "AND (All conditions met)"
              /\ \/ /\ scale_settings.cond_width = CondThreshold
                    /\ scale_settings.cond_height = CondThreshold
                    /\ img_width > CondThreshold /\ img_height < CondThreshold
                 \/ /\ scale_settings.cond_width = 0
                    /\ scale_settings.cond_height = 0 )
              => ~apply_scale

(* The image wider and less high than the two thresholds has been opened
   under AND with a scaling mode: it is not scaled. *)
C22_Witness ==
    /\ pc # "open"
    /\ scale_settings # NoSettings
    /\ scale_settings.mode = "By Percentage"
    /\ scale_settings.condition = "On"
    /\ scale_settings.cond_logic = "AND (All conditions met)"
    /\ scale_settings.cond_width = CondThreshold
    /\ scale_settings.cond_height = CondThreshold
    /\ img_width = CondThreshold + 1000 /\ img_height = CondThreshold - 1000
    /\ ~apply_scale

----------------------------------------------------------------------------
(* Properties of the encoder's failures *)

LastSave == saves[Len(saves)]

(* C23: an encode that the WEBP encoder rejects for its method is followed by
   exactly one more img.save, with the same quality and no method; if this
   one succeeds the probe goes on as any other, its trial holding the size
   and the bytes of the second save.  A failed encode leaves the search
   without a result; the next step of the batch logs the error for the file,
   saves nothing more, writes no output and goes to the next file. *)
C23_CodecRetry ==
    [][ /\ (~retrying /\ retrying')
             => /\ output_format = "WEBP"
                /\ saves' = Append(saves, ProbeArgs)
                /\ ProbeArgs[2] # NoMethod
                /\ pc' = pc /\ history' = history /\ size_at' = size_at
        /\ retrying
             => /\ saves' = Append(saves, <<LastSave[1], NoMethod>>)
                /\ ~retrying'
                /\ pc' # "failed"
                     => IF pc = "tune"
                        THEN pc' \in {"tune", "done"}
                        ELSE history' = Append(history,
                                               [q |-> LastSave[1],
                                                s |-> size_at'[<<LastSave[1], NoMethod>>],
                                                b |-> <<LastSave[1], NoMethod>>])
        /\ pc' = "failed"
             => /\ result' = NoResult
                /\ history' = history
                /\ output_files' = output_files
        /\ pc = "failed"
             => /\ saves' = saves
                /\ output_files' = output_files /\ ws' = ws
                /\ log' = Append(log, [kind |-> "error", name |-> idx, file |-> idx])
                /\ idx' = idx + 1 /\ pc' = "batch_top" ]_vars

(* On a Pillow without "method", the first file has failed in an encode and
   the second one was compressed by retried encodes and written. *)
C23_Witness ==
    /\ pc = "batch_returned" /\ ~pillow_has_method /\ output_format = "WEBP"
    /\ Len(image_files) = 2
    /\ image_files[1].stat /\ image_files[1].decode
    /\ image_files[1].original_size_kb > target_size_kb
    /\ \E i \in 1..Len(log) : log[i].kind = "error" /\ log[i].file = 1
    /\ output_files = <<2>>
    /\ Len(saves) >= 2
    /\ saves[2] = <<saves[1][1], NoMethod>>
    /\ result.bytes[2] = NoMethod


(***************************************************************************)
(* Properties of the copy-through                                          *)
(***************************************************************************)

(* The file of the output written by the step, 0 when the step writes none *)
WrittenFile ==
    IF Len(output_files') = Len(output_files) + 1
    THEN output_files'[Len(output_files')]
    ELSE 0

WithinTarget(file) == image_files[file].original_size_kb <= target_size_kb

(* C24: a file whose original size is at or below the target is copied
   byte for byte to its output: the step that leaves the size test writes
   the output, the written content is the content of the file, the step
   decodes nothing, decides no scaling and probes nothing (the whole state
   of compress_image is left as it was, even for a file that cannot be
   decoded), and the row of the file has "-" for quality and for method,
   the original size as output size and 0.0 as reduction. *)
C24_CopyThrough ==
    [][ /\ (pc = "batch_process" /\ pc' # pc /\ WithinTarget(idx)) => WrittenFile = idx
        /\ (WrittenFile # 0 /\ WithinTarget(WrittenFile)) =>
              /\ pc = "batch_process"
              /\ worker' = worker
              /\ output_bytes' = Append(output_bytes, [copy_of |-> WrittenFile, encoded |-> <<0, 0>>])
              /\ ws' = Append(ws, WrittenFile)
              /\ LET row == ws_cells'[Len(ws_cells')]
                     size == image_files[WrittenFile].original_size_kb
                 IN  /\ Len(ws_cells') = Len(ws_cells) + 1
                     /\ row.quality = [marker |-> "-", number |-> 0]
                     /\ row.method = [marker |-> "-", number |-> 0]
                     /\ row.original = [marker |-> "", number |-> size]
                     /\ row.size = [marker |-> "", number |-> size]
                     /\ row.reduction = [marker |-> "", number |-> 0]
      ]_vars

(* A file that cannot be decoded has been copied through, after a file that
   was compressed. *)
C24_Witness ==
    \E i \in 1..Len(output_bytes) :
        /\ output_bytes[i].copy_of # 0
        /\ ~image_files[output_bytes[i].copy_of].decode
        /\ i > 1 /\ output_bytes[i - 1].copy_of = 0


(***************************************************************************)
(* Properties of the interpolation                                         *)
(***************************************************************************)

Bounded == lower_bound # NoTrial /\ higher_bound # NoTrial

(* The integers a prediction can round to before the clamp *)
Predictions == (0 - 100 * (MaxGridExp + 1))..(100 * (MaxGridExp + 2))

(* n is an integer nearest to the quality Q at which the curve S = A*e^(B*Q)
   through both bounds is at the target.  ln S is affine in Q on the curve
   and affine in the exponent of the size on the grid, so Q is the solution
   of (Q - q_low) * (e_high - e_low) = (e_target - e_low) * (q_high - q_low),
   and n is nearest to it when twice its distance, times |e_high - e_low|,
   is at most |e_high - e_low|. *)
NearestToSolution(n) ==
    LET de == GridExp(higher_bound.s) - GridExp(lower_bound.s)
        dq == higher_bound.q - lower_bound.q
        dt == GridExp(target_size_kb) - GridExp(lower_bound.s)
    IN  2 * Abs((n - lower_bound.q) * de - dt * dq) <= Abs(de)

(* C25: given two trials (Q_low, S_low), (Q_high, S_high) of different
   sizes and a target, the quality predicted is the solution of S = A*e^(B*Q)
   through both points at S = target, rounded to a nearest integer and
   clamped to [1, 100]; in the search, where the target lies between the two
   sizes, the clamp changes nothing, and the quality probed is the
   prediction, or the midpoint of the bracket when the prediction was
   already tried. *)
C25_Interpolation ==
    /\ (pc = "interpolated" /\ lower_bound.s # higher_bound.s) =>
          \E n \in Predictions :
              /\ NearestToSolution(n)
              /\ next_quality = IF n < 1 THEN 1 ELSE IF n > 100 THEN 100 ELSE n
    /\ (pc = "converge" /\ Bounded) =>
          \E n \in 1..100 :
              /\ NearestToSolution(n)
              /\ \/ next_quality = n
                 \/ n \in tried /\ next_quality = (lower_bound.q + higher_bound.q) \div 2

(* A prediction between the qualities 10 and 80, the size falling with the
   quality and the target between the two sizes, where the solution is no
   integer and not the middle of the two qualities. *)
C25_Witness ==
    /\ pc = "interpolated"
    /\ lower_bound.q = 10 /\ higher_bound.q = 80
    /\ lower_bound.s > target_size_kb /\ target_size_kb > higher_bound.s
    /\ ~NearestToSolution(45)
    /\ \A n \in 1..100 :
          (n - 10) * (GridExp(higher_bound.s) - GridExp(lower_bound.s))
              # (GridExp(target_size_kb) - GridExp(lower_bound.s)) * 70


(* The call of interpolate_quality on two trials outside a search *)
OnItsOwn == history = <<>> /\ Bounded

(* C26: interpolate_quality called with S_low == S_high (the case of a zero
   slope B) returns Q_low and raises nothing, whatever the qualities are,
   and in the search no call of it raises: compress_image never ends in an
   error of the interpolation. *)
C26_DegenerateGuard ==
    /\ (OnItsOwn /\ lower_bound.s = higher_bound.s) =>
          /\ pc # "failed"
          /\ pc = "interpolated" => next_quality = lower_bound.q
    /\ ~OnItsOwn => pc # "failed"

(* Two trials of one size and one quality, where a division by the
   difference of the qualities would have failed: Q_low is returned. *)
C26_Witness ==
    /\ OnItsOwn /\ pc = "interpolated"
    /\ lower_bound.s = higher_bound.s /\ lower_bound.q = higher_bound.q
    /\ next_quality = lower_bound.q


(***************************************************************************)
(* Properties of the converge loop                                         *)
(***************************************************************************)

(* The trials of the history at or below the target, and those above it *)
UnderTarget == { i \in 1..Len(history) : history[i].s <= target_size_kb }
OverTarget == { i \in 1..Len(history) : history[i].s > target_size_kb }

(* An iteration of the converge loop begins with this step. *)
Iterates == pc = "loop" /\ try_count' = try_count + 1

(* C27: at every iteration of the converge loop the bracket is recomputed
   from the whole history: its lower side is a trial of maximum quality
   among all trials at or below the target (none if there is no such trial),
   its higher side a trial of minimum quality among all trials above the
   target. *)
C27_BracketTight ==
    [][ Iterates =>
          /\ IF UnderTarget = {} THEN lower_bound' = NoTrial
             ELSE \E i \in UnderTarget :
                    /\ lower_bound' = history[i]
                    /\ \A j \in UnderTarget : history[j].q <= history[i].q
          /\ IF OverTarget = {} THEN higher_bound' = NoTrial
             ELSE \E i \in OverTarget :
                    /\ higher_bound' = history[i]
                    /\ \A j \in OverTarget : history[j].q >= history[i].q
      ]_vars

(* A bracket recomputed from a history of four trials, whose lower side is
   neither of the last two. *)
C27_Witness ==
    /\ pc = "converge" /\ Bounded /\ Len(history) >= 4
    /\ lower_bound \in { history[i] : i \in UnderTarget }
    /\ \A i \in {Len(history) - 1, Len(history)} : history[i] # lower_bound


(* The trials of the history hold a closed bracket: the largest quality at or
   below the target and the smallest quality above it differ by at most 1. *)
Closed ==
    \E i \in UnderTarget, j \in OverTarget :
        /\ \A k \in UnderTarget : history[k].q <= history[i].q
        /\ \A k \in OverTarget : history[k].q >= history[j].q
        /\ Abs(history[j].q - history[i].q) <= 1

(* C28: once both sides of the bracket exist and their qualities differ by
   at most 1, no quality is probed any more: the history stays as it is, and
   the next step of the converge loop is the final selection. *)
C28_ClosedBracketStops ==
    [][ Closed =>
          /\ history' = history
          /\ pc' # "converge"
          /\ pc = "loop" => pc' \in {"tune", "done"}
      ]_vars

(* The loop has been left on a closed bracket after probes of its own, with
   step and budget left for more. *)
C28_Witness ==
    /\ pc = "done" /\ Closed
    /\ Len(history) >= 4
    /\ step >= StepScale /\ try_count < MaxTryCount


(* The step appends a trial to the history in the converge loop. *)
ConvergeProbed == pc = "converge" /\ Len(history') = Len(history) + 1

(* The size measured by the probe of the step *)
Measured == history'[Len(history')].s

(* C29, as stated: after each converge probe the step is 1 if the measured
   size is within 10% of the target, and half of what it was otherwise; the
   loop iterates only while the step is at least 1 and the trial count is at
   most 10. *)
C29_StepControl ==
    [][ /\ ConvergeProbed =>
              step' = IF Abs(Measured - target_size_kb) * 10 < target_size_kb
                      THEN StepScale
                      ELSE step \div 2
        /\ Iterates => (step >= StepScale /\ try_count <= 10)
      ]_vars


(* C29, amended: after each converge probe the step is 1 if the measured
   size is within 10% of the target, and otherwise half of what it was but
   not less than 1; the loop iterates only while the step is at least 1 and
   the trial count is at most 10, and the step is below 1 only after an
   iteration that halved it without a probe. *)
C29_StepControlFloored ==
    [][ /\ ConvergeProbed =>
              step' = IF Abs(Measured - target_size_kb) * 10 < target_size_kb
                      THEN StepScale
                      ELSE IF step \div 2 >= StepScale THEN step \div 2 ELSE StepScale
        /\ Iterates => (step >= StepScale /\ try_count <= 10)
        /\ (step >= StepScale /\ step' < StepScale) => (history' = history /\ Iterates)
      ]_vars

(* The probe before the last left the step at 1, the last one measured a
   size outside the margin, and the step is 1 still. *)
C29_Witness ==
    /\ pc = "loop" /\ Len(history) >= 4
    /\ step = StepScale
    /\ Abs(history[Len(history)].s - target_size_kb) * 10 >= target_size_kb
    /\ Abs(history[Len(history) - 1].s - target_size_kb) * 10 < target_size_kb


(* The iteration the step begins goes on to a probe, or ends at its continue
   without one. *)
GoesToProbe == pc' = "converge" /\ step' = step
EndsHalved ==
    /\ pc' = "loop" /\ step' = step \div 2
    /\ history' = history /\ saves' = saves /\ tried' = tried

(* C30: in an iteration that is not ended by a closed bracket, a predicted
   quality that was already tried is replaced by the integer midpoint of the
   qualities of the bracket when the bracket has both sides; if the midpoint
   was tried as well, or if the bracket has one side only, the step is halved
   and the iteration ends without a probe.  A quality that was not tried is
   probed. *)
C30_AlreadyTried ==
    [][ (Iterates /\ pc' \in {"loop", "converge"}) =>
          IF Bounded'
          THEN \E n \in 1..100 :
                 /\ NearestToSolution(n)'
                 /\ IF n \notin tried
                    THEN next_quality' = n /\ GoesToProbe
                    ELSE /\ next_quality' = (lower_bound'.q + higher_bound'.q) \div 2
                         /\ IF next_quality' \notin tried THEN GoesToProbe ELSE EndsHalved
          ELSE IF next_quality' \notin tried THEN GoesToProbe ELSE EndsHalved
      ]_vars

(* The midpoint of the bracket is about to be probed in place of a prediction
   that was already tried. *)
C30_Witness ==
    /\ pc = "converge" /\ Bounded
    /\ next_quality = (lower_bound.q + higher_bound.q) \div 2
    /\ \E n \in tried : NearestToSolution(n)
    /\ \A n \in 1..100 : NearestToSolution(n) => n \in tried


(***************************************************************************)
(* Properties of the controller                                            *)
(***************************************************************************)

(* A stop and a skip are both requested and not yet acted on. *)
BothPending == controller /\ stop_set /\ skip_set

(* The batch has halted: StopProcessing is on its way to its handler, or the
   loop is left. *)
Halted == pc \in {"stopped", "batch_save", "batch_returned"}

(* C31: when a stop and a skip are both pending at a suspension point, the
   outcome is the stop and the skip flag is left set: wait_if_paused returns,
   should_stop is tested before consume_skip, in ensure_running and at the
   head of the batch loop, the batch halts, and nothing consumes the skip
   once the batch has halted. *)
C31_StopBeforeSkip ==
    [][ /\ (BothPending /\ er = "wait_if_paused" /\ er' # er) =>
              (er' = "should_stop" /\ skip_set')
        /\ (BothPending /\ er = "should_stop" /\ er' # er) =>
              (pc' = "stopped" /\ skip_set')
        /\ (BothPending /\ pc \in {"batch_top", "batch_should_stop"} /\ pc' # pc) =>
              (pc' \in {"batch_should_stop", "batch_save"} /\ skip_set')
        /\ (Halted /\ skip_set) => (Halted' /\ skip_set')
      ]_vars

(* A batch stopped in a search with the skip still set: the stop is logged,
   no file was skipped, files are left over. *)
C31_Witness ==
    /\ pc = "batch_returned" /\ BothPending
    /\ idx <= Len(image_files) /\ idx > 1
    /\ \E i \in 1..Len(log) : log[i] = LogLine("stopped", 0)
    /\ \A i \in 1..Len(log) : log[i].kind # "skipped"
    /\ Len(saves) > 0


(* C32: with request_skip called on the driver thread while the worker is
   anywhere in the test-then-clear of consume_skip, consume_skip returns True
   only on a flag that a request has set, the number of True results never
   exceeds the number of requests, and as long as the worker keeps polling
   every request is followed by a consume_skip that returns True. *)
C32_SkipAtomicity ==
    /\ [](skip_results <= skip_requests)
    /\ [][ skip_results' # skip_results =>
             (skip_set /\ skip_requests > 0 /\ skip_results' = skip_results + 1) ]_vars
    /\ \A r \in 0..MaxRequests :
          (skip_set /\ skip_results = r) ~> (skip_results > r)

(* Two requests have been taken up by one True result (the second one made
   before the clear of the call that returned it): the flag is clear. *)
C32_Witness ==
    /\ pc = "polling" /\ er = "consume_skip" /\ ~skip_set
    /\ skip_requests = 2 /\ skip_results = 1


(***************************************************************************)
(* Properties of the converge loop as a whole                              *)
(***************************************************************************)

(* The converge loop is entered: line 248 has set the step, no iteration has
   changed it yet. *)
AtEntry == pc = "loop" /\ step = InitialStep * StepScale

(* The history is one trial, at quality 1 over the target or at quality 100
   at or below it. *)
SingleTrial ==
    /\ Len(history) = 1
    /\ \/ history[1].q = 1 /\ history[1].s > target_size_kb
       \/ history[1].q = 100 /\ history[1].s <= target_size_kb

(* C33: when the converge loop is entered, the history holds a trial at or
   below the target and a trial above it, or it is one trial, at quality 1
   above the target or at quality 100 at or below it; in the latter case the
   loop makes no probe, and the search returns the quality of that trial. *)
C33_StateAtConverge ==
    /\ [](AtEntry => ((UnderTarget # {} /\ OverTarget # {}) \/ SingleTrial))
    /\ [][ (SingleTrial /\ pc = "loop") =>
             (history' = history /\ pc' \in {"loop", "tune", "done"}) ]_vars
    /\ []((SingleTrial /\ Done) => result.quality = history[1].q)

(* The search has returned from a loop entered on one trial at quality 100,
   after six iterations that halved the step and a tuning of the method. *)
C33_Witness ==
    /\ Done /\ SingleTrial /\ history[1].q = 100
    /\ try_count = 7 /\ step < StepScale
    /\ Len(saves) > 1
    /\ result.quality = 100


(* The gap of the bracket the variables hold *)
Gap == higher_bound.q - lower_bound.q

(* C34: in every iteration of the converge loop whose bracket has both sides
   and a gap of more than 1, one probe is made, at a quality not tried before
   and strictly between the two qualities of the bracket; the gap of the
   bracket is strictly smaller at the next iteration; and while the history
   has trials on both sides of the target, the iteration counter at the loop
   head is the number of probes made. *)
C34_ConvergeProgress ==
    /\ [][ (Iterates /\ Bounded' /\ Gap' > 1) =>
             /\ pc' = "converge"
             /\ next_quality' \notin tried
             /\ lower_bound'.q < next_quality' /\ next_quality' < higher_bound'.q
             /\ saves' = saves /\ history' = history ]_vars
    /\ [][ (pc = "converge" /\ Bounded /\ pc' # pc) =>
             /\ pc' = "loop"
             /\ Len(saves') = Len(saves) + 1
             /\ saves'[Len(saves')][1] = next_quality
             /\ Len(history') = Len(history) + 1
             /\ history'[Len(history')].q = next_quality ]_vars
    /\ [][ (Iterates /\ Bounded /\ Gap > 1) => (Bounded' /\ Gap' < Gap) ]_vars
    /\ []((pc = "loop" /\ UnderTarget # {} /\ OverTarget # {}) =>
             (try_count = Len(history) /\ Len(saves) = Len(history)))

(* The fourth probe of a converge loop is about to be made, inside a bracket
   that three probes have narrowed. *)
C34_Witness ==
    /\ pc = "converge" /\ Bounded /\ Len(history) = 5
    /\ lower_bound.q < next_quality /\ next_quality < higher_bound.q
    /\ lower_bound.q > 1 /\ higher_bound.q < 100
    /\ try_count = 6


(* The history is inverted: a trial at or below the target has a higher
   quality than a trial above the target. *)
Inverted ==
    \E i \in UnderTarget, j \in OverTarget : history[i].q > history[j].q

(* C35 speaks of the converge loop on an inverted history.  No search reaches
   one: the bracket probes are at the ends of the range, and every converge
   probe is strictly inside the bracket, so every trial at or below the
   target is below every trial above it, on any size function. *)
C35_NeverInverted == ~Inverted


(* The bracket probe has come out on the side of the bootstrap: quality 1 is
   over the target, or quality 100 is at or below it. *)
EarlyLow ==
    Len(history) = 2 /\ history[2].q = 1 /\ history[2].s > target_size_kb
EarlyHigh ==
    Len(history) = 2 /\ history[2].q = 100 /\ history[2].s <= target_size_kb

(* C36: when the bracket probe is over the target at quality 1 or at or
   below it at quality 100, the search returns that trial at once, and when
   no trial is at or below the target it returns the smallest one: in all
   three cases no tuning probe is made, before or after, and the method
   returned is the default method, also for WEBP with a size below the
   tuning threshold. *)
C36_EarlyReturnsUntuned ==
    (Lossy /\ history # <<>> /\ (EarlyLow \/ EarlyHigh \/ ~SomeUnder)) =>
        /\ pc # "tune" /\ TuningProbes = 0
        /\ (EarlyLow \/ EarlyHigh) =>
              (Done /\ result = [bytes |-> history[2].b, quality |-> history[2].q,
                                 size |-> history[2].s, method |-> webp_method_default])
        /\ Done => result.method = webp_method_default
        /\ (Done /\ ~EarlyLow /\ ~EarlyHigh) =>
              \A i \in 1..Len(history) : result.size <= history[i].s

(* A WEBP run has returned the trial at quality 100, far below the target,
   with the default method and no tuning probe. *)
C36_Witness ==
    /\ Done /\ output_format = "WEBP" /\ EarlyHigh
    /\ webp_method_default > 0
    /\ 20 * result.size < 19 * target_size_kb
    /\ result.method = webp_method_default /\ TuningProbes = 0


(* The worker is at the head of the batch loop or past the loop. *)
AtLoopHead == pc \in {"batch_top", "batch_should_stop", "batch_save", "batch_returned"}

(* C37: no operation of the controller clears the stop flag: once stop() was
   called the flag stays set, so should_stop() is true from then on; a pause
   set with it does not hold the worker in wait_if_paused, in a search or at
   the head of the batch loop; and whatever resume() and request_skip() do
   afterwards, the test of should_stop leads out of the search and out of the
   loop, and from the head of the loop no further file is begun. *)
C37_StopSticky ==
    /\ [][ stop_set => stop_set' ]_vars
    /\ []((stop_set /\ er = "wait_if_paused") => ENABLED WaitIfPaused)
    /\ []((stop_set /\ pc = "batch_top") => ENABLED BatchWaitIfPaused)
    /\ [][ (stop_set /\ er = "should_stop" /\ er' # er) => pc' = "stopped" ]_vars
    /\ [][ (stop_set /\ (AtLoopHead \/ pc = "stopped")) =>
             /\ AtLoopHead' \/ pc' = "stopped"
             /\ pc' = "batch_top" => pc = "batch_top"
             /\ idx' = idx /\ output_files' = output_files /\ ws' = ws /\ saves' = saves ]_vars

(* A batch has ended on a stop with files left over, the pause and the skip
   both set. *)
C37_Witness ==
    /\ pc = "batch_returned" /\ stop_set /\ pause_set /\ skip_set
    /\ idx <= Len(image_files)
    /\ excel.saved

-----------------------------------------------------------------------------
(* Properties of the window *)

Alive == {w \in 1..Len(ui_workers) : ui_workers[w].at = "running"}

(* C38: in the window, at most one worker runs at a time, and Run stays
   disabled from the start of a run until the set_running_state its worker
   posts at its end; every run starts its worker on a controller made for it,
   with pause, stop and skip clear, and a button only ever sets or clears a
   flag of the controller of the last run started, so the flags of one run
   never reach the worker of a later run. *)
C38_RunIsolation ==
    /\ [](Cardinality(Alive) <= 1)
    /\ [](\A w \in 1..Len(ui_workers) : ui_workers[w].at # "ended" => ~RunEnabled)
    /\ [](\A w \in 1..Len(ui_workers) :
             /\ ui_workers[w].controller = w
             /\ ui_workers[w].controller \in 1..Len(ui_controllers))
    /\ [][ ui_workers' # ui_workers /\ Len(ui_workers') > Len(ui_workers) =>
             /\ Alive = {}
             /\ Len(ui_controllers') = Len(ui_controllers) + 1
             /\ ui_controllers'[ui_workers'[Len(ui_workers')].controller] = ClearFlags ]_vars
    /\ [][ \A c \in 1..Len(ui_controllers) :
             ui_controllers'[c] # ui_controllers[c] =>
                c = Len(ui_workers) /\ c = ui_controller ]_vars

C38_Witness ==
    /\ Len(ui_workers) = 2
    /\ ui_workers[1].at = "ended"
    /\ ui_controllers[1] = [pause |-> TRUE, stop |-> TRUE, skip |-> TRUE]
    /\ ui_workers[2].at = "running"
    /\ ui_controllers[2] = ClearFlags
    /\ ui_controller = 2

-----------------------------------------------------------------------------
(* Properties of the output names *)

(* Two writes of one batch that go to the same output file *)
Overwrites(i, j) ==
    /\ i < j
    /\ written_paths[i].output_file = written_paths[j].output_file

(* C39: within one run no two input files are written to the same output
   path, whatever their subfolders and their input suffixes. *)
C39_OutputPathsInjective ==
    \A i, j \in 1..Len(written_paths) : ~Overwrites(i, j)

(* The output file names the folder and the stem of its input file: two input
   files written to one output file differ in their suffix only. *)
C39_SameStemOnly ==
    \A i, j \in 1..Len(written_paths) :
        Overwrites(i, j) =>
            LET f == found_files[written_paths[i].image_file]
                g == found_files[written_paths[j].image_file]
            IN  f.folder = g.folder /\ f.stem = g.stem /\ f.suffix # g.suffix

====
